---- MODULE Spec2Model ----
(***************************************************************************)
(* ORION requirement-decomposition workflow.                               *)
(*                                                                         *)
(* One session is modelled at a time.  The variable `flow` says which      *)
(* entry point of the repository drives the session:                       *)
(*   "agents" - the JIRAAgentSystem engine of agents.py, called by a host  *)
(*              that submits the answers once                              *)
(*   "api"    - the same engine, called by a host that submits answers     *)
(*              with process_qa_session any number of times                *)
(*   "startup" - the construction of an engine, before any session exists  *)
(*   "main"   - the LangGraph workflow of main.py (run_workflow)           *)
(*   "ui"     - the Streamlit chat flow of main_interface.py               *)
(* These make up Spec.  Four programs are specified by themselves:         *)
(*   "cli"    - main() of agents.py, the interactive session (CliSpec)     *)
(*   "chat"   - the Streamlit page pages/chatbot.py (ChatSpec)             *)
(*   "query"  - one call of JiraIntegrationAgent.query (QuerySpec)         *)
(*   "history" - a HistoryManager of history.py (HistorySpec)              *)
(* Language-model calls are inputs: every action draws the outcome of each *)
(* call it makes (a failure, or a parsed response) from a small set.       *)
(* Scores are counted in tenths (7 stands for 0.7).                        *)
(***************************************************************************)
EXTENDS Integers, Sequences, FiniteSets, TLC

VARIABLES
    flow,               \* which entry point drives the session
    pc,                 \* main.py: the node about to run; ui: st.session_state.step; agents: the host's stage
    phase,              \* state.phase / state["phase"]
    generation_type,    \* GenerationType
    workflow_type,      \* main.py / ui: "", "existing", "new"
    hlr,                \* requirement text
    selected_project,   \* main.py / ui
    selected_issues,    \* main.py / ui
    issues_detail,      \* main.py / ui
    slicing_type,
    persona,
    questions,          \* sequence of Question records; the id of a question is its position
    responses,          \* question id -> answer text
    validation_results, \* question id -> ValidationResult
    epics,
    user_stories,
    feedback_history,
    feedback_count,
    overall_confidence, \* a rational [num, den], in tenths
    errors,             \* the set of messages appended to state.errors
    requirement_analysis, \* main.py / ui: the analysis dict
    local,              \* loop indices, local variables and Streamlit session keys
    last                \* what the last operation did: calls made, value returned, exception raised

vars == <<flow, pc, phase, generation_type, workflow_type, hlr, selected_project,
          selected_issues, issues_detail, slicing_type, persona, questions, responses,
          validation_results, epics, user_stories, feedback_history, feedback_count,
          overall_confidence, errors, requirement_analysis, local, last>>

(***************************************************************************)
(* Bounds of the model.                                                    *)
(***************************************************************************)
MaxQuestions == 1
MaxItems == 1

(***************************************************************************)
(* Program constants.                                                      *)
(***************************************************************************)
MaxFeedback == 3
DefaultValidationScore == 7
DefaultAnalysisConfidence == 5

(***************************************************************************)
(* Value domains of the inputs.                                            *)
(***************************************************************************)
None == "None"
SKIPPED == "[SKIPPED]"
Answers == {"a1"}
RetryAnswers == {"a2"}      \* what a user types when asked to improve an answer
\* the texts a user submits as feedback: the k-th accepted feedback of a session
\* is Feedbacks[k], so that every entry of feedback_history is distinguishable
Feedbacks == <<"f1", "f2", "f3", "f4">>
Titles == <<"t1", "t2">>
BadItem == "bad"            \* an item of a model response that lacks a required field
\* the verdicts a validation reply may carry
Verdicts == {[is_valid |-> TRUE, overall_score |-> 0],
             [is_valid |-> TRUE, overall_score |-> 10],
             [is_valid |-> FALSE, overall_score |-> 10]}
GenerationTypes == {"epics_only", "stories_only", "both"}
SlicingTypes == {"functional", "technical", "user_journey"}

\* the well-formed lists a generator returns: at most MaxItems consecutive
\* titles of Titles, starting anywhere
ItemLists ==
    {<<>>} \cup {SubSeq(Titles, w[1], w[2]) :
                    w \in {v \in (1..Len(Titles)) \X (1..Len(Titles)) :
                              v[1] <= v[2] /\ v[2] - v[1] < MaxItems}}

\* the lists a model response may carry: well-formed ones, and one with an item
\* that lacks a required field
RawLists == ItemLists \cup {<<BadItem>>}
WellFormed(raw) == \A i \in 1..Len(raw) : raw[i] # BadItem

EmptyMap == [x \in {} |-> None]
Zero == [num |-> 0, den |-> 1]

\* requirement_analysis before the analysis ran ({})
NoAnalysis == [slicing_type |-> "", recommended_persona |-> "", confidence |-> 0]

\* local state: the Q&A loop index and the qa_responses dict of
\* requirement_analysis_node, the jira_guidance string (empty or not), the
\* Streamlit keys question_idx (qidx), generation_done, projects_loaded with
\* projects (projects) and issues_loaded; and, for the record, the number of
\* generation passes run and the text each verdict was computed on; api_key
\* is whether the environment holds OPENAI_API_KEY; feedback_rounds is the
\* number of rounds of the feedback loop of agents.py main() in which a
\* feedback was read and handed to process_feedback; skipped_questions and
\* feedback_count are the keys of that name in the st.session_state of
\* pages/chatbot.py (qidx its question_idx, qa_responses its qa_responses)
NoLocals == [qidx |-> 0, qa_responses |-> EmptyMap, jira_guidance |-> FALSE,
             generation_done |-> FALSE, gen_passes |-> 0, validated_on |-> EmptyMap,
             projects |-> "unloaded", issues_loaded |-> FALSE,
             api_key |-> TRUE, feedback_rounds |-> 0,
             skipped_questions |-> {}, feedback_count |-> 0]

\* `last` records, for the operation that ran last: whether it raised to its
\* caller, the applied flag process_feedback returned, whether feedback
\* validation / apply_feedback were invoked, the components whose model call
\* failed, what the latest generator call returned for each content list, the
\* answer texts of the Q&A context the generators were given, the epics
\* list the story generator was given, and, for process_qa_session, the
\* questions whose answer went to the validator (qa_submitted) and those whose
\* validation call raised (qa_failed).
NoCall == [op |-> "none", raised |-> FALSE, applied |-> FALSE, validated |-> FALSE,
           regenerated |-> FALSE, failed |-> {},
           epics_called |-> FALSE, epics_out |-> <<>>,
           stories_called |-> FALSE, stories_out |-> <<>>,
           qa_context |-> {}, epic_context |-> <<>>,
           qa_submitted |-> {}, qa_failed |-> {}]

Call(op) == [NoCall EXCEPT !.op = op]

\* state.generation_type in [EPICS_ONLY, BOTH]
WantsEpics(gt) == gt \in {"epics_only", "both"}

\* WantsStories without the test of the generation type
WantsStoriesAlways(gt) == TRUE

\* state.generation_type in [STORIES_ONLY, BOTH]
WantsStories(gt) == gt \in {"stories_only", "both"}

(***************************************************************************)
(* Model replies.  kind = "raise": the API call failed; "unparseable": the *)
(* text is not JSON; "json": a parsed document with the fields shown.      *)
(***************************************************************************)
FailKinds == {"raise", "unparseable"}

\* agents.py analysis: {"slicing_type": ..., "persona": ...}
AgentsAnalysisReplies ==
    {[kind |-> k, slicing_type |-> None, persona |-> None] : k \in FailKinds}
    \cup {[kind |-> "json", slicing_type |-> s, persona |-> "Product Manager"] :
             s \in {"functional", "bogus"}}

\* question generation: the number of well-formed questions returned
QuestionReplies ==
    {[kind |-> k, count |-> 0] : k \in FailKinds}
    \cup {[kind |-> "json", count |-> n] : n \in 0..MaxQuestions}

\* answer validation: {"is_valid": ..., "overall_score": ...}
ValidationReplies ==
    {[kind |-> k, is_valid |-> FALSE, overall_score |-> 0] : k \in FailKinds}
    \cup {[kind |-> "json", is_valid |-> v.is_valid, overall_score |-> v.overall_score] :
             v \in Verdicts}

\* epic / story generation: the list under "epics" / "user_stories"
GenerationReplies ==
    {[kind |-> k, items |-> <<>>] : k \in FailKinds}
    \cup {[kind |-> "json", items |-> l] : l \in RawLists}

\* feedback validation: {"is_valid": ...}
FeedbackVerdicts ==
    {[kind |-> k, is_valid |-> FALSE] : k \in FailKinds}
    \cup {[kind |-> "json", is_valid |-> v] : v \in BOOLEAN}

\* feedback application: a document that may or may not carry each list
ListOptions == {[has |-> FALSE, items |-> <<>>]} \cup {[has |-> TRUE, items |-> l] : l \in RawLists}

FeedbackReplies ==
    {[kind |-> k, has_epics |-> FALSE, epics |-> <<>>,
      has_stories |-> FALSE, user_stories |-> <<>>] : k \in FailKinds}
    \cup {[kind |-> "json", has_epics |-> e.has, epics |-> e.items,
           has_stories |-> u.has, user_stories |-> u.items] : e \in ListOptions, u \in ListOptions}

\* the replies that differ in a list the session's generation type reads
FeedbackRepliesFor(gt) ==
    {r \in FeedbackReplies :
        /\ (~WantsEpics(gt) => ~r.has_epics)
        /\ (~WantsStories(gt) => ~r.has_stories)}

\* main.py analysis: a key the document lacks is Missing
Missing == "<missing>"
MainAnalysisReplies ==
    {[kind |-> k, slicing_type |-> Missing, recommended_persona |-> Missing, confidence |-> 0] :
        k \in FailKinds}
    \cup {[kind |-> "json", slicing_type |-> "technical",
           recommended_persona |-> "Technical Lead", confidence |-> 9],
          [kind |-> "json", slicing_type |-> "bogus",
           recommended_persona |-> Missing, confidence |-> 9]}

\* main.py answer validation: {"is_valid", "overall_score", "issues"}
MainValidationReplies ==
    {[kind |-> k, is_valid |-> FALSE, overall_score |-> 0, has_issues |-> FALSE] : k \in FailKinds}
    \cup {[kind |-> "json", is_valid |-> v.is_valid, overall_score |-> v.overall_score,
           has_issues |-> i] : v \in Verdicts, i \in BOOLEAN}

\* main.py generation: the items are kept as the model wrote them
MainGenerationReplies ==
    {[kind |-> k, items |-> <<>>] : k \in FailKinds}
    \cup {[kind |-> "json", items |-> l] : l \in ItemLists}

\* stand for the reply of a call that is not made
NoGenerationReply == [kind |-> "raise", items |-> <<>>]
NoVerdict == [kind |-> "raise", is_valid |-> FALSE]
NoReply == [kind |-> "raise", has_epics |-> FALSE, epics |-> <<>>,
            has_stories |-> FALSE, user_stories |-> <<>>]

(***************************************************************************)
(* Session records.                                                        *)
(***************************************************************************)
\* a freshly generated Question: answered = False, answer = "", skipped = False,
\* validation_status = "pending", validation_score = 0.0
NewQuestion == [answered |-> FALSE, answer |-> "", skipped |-> FALSE,
                validation_status |-> "pending", validation_score |-> 0]

NewQuestions(n) == [i \in 1..n |-> NewQuestion]

QuestionIds == 1..Len(questions)

RECURSIVE SumScores(_, _)
SumScores(results, ids) ==
    IF ids = {} THEN 0
    ELSE LET q == CHOOSE x \in ids : TRUE
         IN  results[q].overall_score + SumScores(results, ids \ {q})

\* valid_scores = [vr.overall_score for vr in validation_results.values() if vr.is_valid]
\* sum(valid_scores) / len(valid_scores) if valid_scores else 0.0
Confidence(results) ==
    LET valid == {q \in DOMAIN results : results[q].is_valid}
    IN  IF valid # {} THEN [num |-> SumScores(results, valid), den |-> Cardinality(valid)]
        ELSE Zero

\* the keys of config['slicing_types'] in slicing_config.json
ConfigSlicingTypes == SlicingTypes

(***************************************************************************)
(* agents.py: the JIRAAgentSystem engine.  A host creates a session, runs  *)
(* the analysis and the question generation, feeds answers, generates, and *)
(* then submits feedback; pc follows the host through these stages.        *)
(***************************************************************************)
\* the flows in which the JIRAAgentSystem engine runs
EngineFlows == {"agents", "api", "cli", "chat"}

\* the flows whose host submits feedback: a caller of the engine's methods
\* ("agents"), the interactive main() of agents.py ("cli") and the Streamlit
\* page pages/chatbot.py ("chat")
FeedbackFlows == {"agents", "cli", "chat"}

\* where the host stands after process_feedback raised.  main() of agents.py
\* and a calling host stop; the page of pages/chatbot.py has no handler:
\* Streamlit shows the exception and the step is still "feedback".  (An
\* exception in an earlier step of the page also leaves the step as it was;
\* the model does not follow the page after those, pc is "aborted".)
FeedbackRaised == IF flow = "chat" THEN pc ELSE "aborted"

\* where the host stands after process_feedback returned: pages/chatbot.py
\* counts the attempt and goes to export at the third
AfterFeedback ==
    IF flow = "chat" /\ local.feedback_count + 1 >= MaxFeedback THEN "export" ELSE pc

AgentsUnused == <<workflow_type, selected_project, selected_issues, issues_detail,
                 requirement_analysis>>

AgentsOnly == <<AgentsUnused, local>>

\* JIRAAgentSystem.create_session
create_session(gt) ==
    /\ flow \in EngineFlows
    /\ pc = "analyze"
    /\ phase = "input"
    /\ generation_type = gt
    /\ hlr = "req"
    /\ slicing_type = None
    /\ persona = ""
    /\ questions = <<>>
    /\ responses = EmptyMap
    /\ validation_results = EmptyMap
    /\ epics = <<>>
    /\ user_stories = <<>>
    /\ feedback_history = <<>>
    /\ feedback_count = 0
    /\ overall_confidence = Zero
    /\ errors = {}
    /\ workflow_type = ""
    /\ selected_project = None
    /\ selected_issues = <<>>
    /\ issues_detail = ""
    /\ requirement_analysis = NoAnalysis
    /\ local = NoLocals
    /\ last = NoCall

\* RequirementAnalysisAgent.analyze_requirement (agents.py)
Agents_analyze_requirement(r) ==
    /\ flow \in EngineFlows
    /\ pc = "analyze"
    /\ IF r.kind = "json"
       THEN /\ phase' = "analyzing"
            /\ slicing_type' = r.slicing_type
            /\ persona' = r.persona
            /\ errors' = errors
            /\ pc' = "question"
            /\ last' = Call("analyze_requirement")
       ELSE /\ phase' = "error"
            /\ errors' = errors \cup {"Analysis error"}
            /\ pc' = "aborted"
            /\ last' = [Call("analyze_requirement") EXCEPT !.raised = TRUE, !.failed = {"analysis"}]
            /\ UNCHANGED <<slicing_type, persona>>
    /\ UNCHANGED <<flow, generation_type, hlr, questions, responses, validation_results,
                   epics, user_stories, feedback_history, feedback_count,
                   overall_confidence, AgentsOnly>>

\* RequirementAnalysisAgent.generate_questions (agents.py)
Agents_generate_questions(r) ==
    /\ flow \in EngineFlows
    /\ pc = "question"
    /\ IF slicing_type \notin ConfigSlicingTypes
       THEN \* KeyError on the configuration lookup, before the try block
            /\ phase' = "questioning"
            /\ pc' = "aborted"
            /\ last' = [Call("generate_questions") EXCEPT !.raised = TRUE]
            /\ UNCHANGED <<questions, errors>>
       ELSE IF r.kind = "json"
       THEN /\ phase' = "questioning"
            /\ questions' = NewQuestions(r.count)
            /\ pc' = "qa"
            /\ last' = Call("generate_questions")
            /\ errors' = errors
       ELSE /\ phase' = "error"
            /\ errors' = errors \cup {"Question generation error"}
            /\ pc' = "aborted"
            /\ last' = [Call("generate_questions") EXCEPT !.raised = TRUE, !.failed = {"questions"}]
            /\ UNCHANGED questions
    /\ UNCHANGED <<flow, generation_type, hlr, slicing_type, persona, responses,
                   validation_results, epics, user_stories, feedback_history,
                   feedback_count, overall_confidence, AgentsOnly>>

\* validate_response clearing the question when the validation call fails
Agents_validate_response_resetting(q, answer, r) ==
    IF r.kind = "json"
    THEN [q EXCEPT !.answered = TRUE,
                   !.answer = answer,
                   !.validation_status = IF r.is_valid THEN "valid" ELSE "invalid",
                   !.validation_score = r.overall_score]
    ELSE NewQuestion

\* RequirementAnalysisAgent.validate_response (agents.py): the Question after a
\* validation call with reply r on the answer text
Agents_validate_response(q, answer, r) ==
    IF r.kind = "json"
    THEN [q EXCEPT !.answered = TRUE,
                   !.answer = answer,
                   !.validation_status = IF r.is_valid THEN "valid" ELSE "invalid",
                   !.validation_score = r.overall_score]
    ELSE q

ValidationResult(r) == [is_valid |-> r.is_valid, overall_score |-> r.overall_score]

\* Validated taking a failed validation call for a verdict
ValidatedRegardless(ids, replies) == ids

\* process_qa_session: the questions among ids whose validate_response call
\* returned rather than raised into the except clause
Validated(ids, replies) == {q \in ids : replies[q].kind = "json"}

\* JIRAAgentSystem.process_qa_session(state, qa_responses, skipped_questions)
\* replies[q] is the model reply to the validation call made for question q
process_qa_session(qa_responses, skipped_questions, replies) ==
    LET toValidate == {q \in DOMAIN qa_responses :
                          q \notin skipped_questions /\ qa_responses[q] # ""}
        validated == Validated(toValidate, replies)
        marked == [i \in QuestionIds |->
                      IF i \in skipped_questions
                      THEN [questions[i] EXCEPT !.skipped = TRUE, !.answered = TRUE,
                                                !.answer = SKIPPED]
                      ELSE questions[i]]
        results == [q \in DOMAIN validation_results \cup validated |->
                      IF q \in validated THEN ValidationResult(replies[q])
                      ELSE validation_results[q]]
    IN  /\ flow \in EngineFlows
        /\ pc = "qa" \/ (flow = "api" /\ pc = "generate")
        /\ pc' = "generate"
        /\ questions' = [i \in QuestionIds |->
                            IF i \in toValidate
                            THEN Agents_validate_response(marked[i], qa_responses[i], replies[i])
                            ELSE marked[i]]
        /\ validation_results' = results
        /\ responses' = [q \in DOMAIN responses \cup validated |->
                            IF q \in validated THEN qa_responses[q] ELSE responses[q]]
        /\ phase' = IF toValidate # {} THEN "validating" ELSE phase
        /\ errors' = IF validated # toValidate THEN errors \cup {"Validation error"} ELSE errors
        /\ overall_confidence' = Confidence(results)
        /\ last' = [Call("process_qa_session") EXCEPT
                        !.failed = IF validated # toValidate THEN {"validation"} ELSE {},
                        !.qa_submitted = toValidate,
                        !.qa_failed = {q \in toValidate : replies[q].kind # "json"}]
        /\ UNCHANGED <<flow, generation_type, hlr, slicing_type, persona, epics,
                       user_stories, feedback_history, feedback_count, AgentsOnly>>

\* EpicGeneratorAgent.generate_epics / UserStoryGeneratorAgent.generate_user_stories
\* (agents.py): the reply yields the new list, or the call raises
Agents_generates(r) == r.kind = "json" /\ WellFormed(r.items)

\* EpicGeneratorAgent._build_qa_context / UserStoryGeneratorAgent._build_qa_context
\* (agents.py): the answer texts written into the context, one "A: ..." line
\* for every answered question and "A: [SKIPPED]" for every skipped one
Agents_build_qa_context(qs) ==
    {qs[i].answer : i \in {j \in 1..Len(qs) : qs[j].answered /\ ~qs[j].skipped}}
    \cup {SKIPPED : i \in {j \in 1..Len(qs) : ~(qs[j].answered /\ ~qs[j].skipped)
                                              /\ qs[j].skipped}}

\* JIRAAgentSystem.generate_content = _generate_node
generate_content(er, sr) ==
    LET epicsRun == WantsEpics(generation_type)
        epicsOk == ~epicsRun \/ Agents_generates(er)
        storiesRun == WantsStories(generation_type) /\ epicsOk
        storiesOk == ~storiesRun \/ Agents_generates(sr)
    IN  /\ flow \in EngineFlows
        /\ pc \in {"qa", "generate"}
        /\ epics' = IF epicsRun /\ epicsOk THEN er.items ELSE epics
        /\ user_stories' = IF storiesRun /\ storiesOk THEN sr.items ELSE user_stories
        /\ phase' = IF ~epicsOk \/ ~storiesOk THEN "error"
                    ELSE IF WantsStories(generation_type) THEN "generating_stories"
                    ELSE "generating_epics"
        /\ errors' = errors \cup (IF ~epicsOk THEN {"Epic generation error"} ELSE {})
                             \cup (IF ~storiesOk THEN {"User story generation error"} ELSE {})
        /\ pc' = IF epicsOk /\ storiesOk THEN "content" ELSE "aborted"
        /\ last' = [Call("generate_content") EXCEPT
                        !.raised = ~(epicsOk /\ storiesOk),
                        !.failed = (IF epicsOk THEN {} ELSE {"epics"})
                                   \cup (IF storiesOk THEN {} ELSE {"stories"}),
                        !.epics_called = epicsRun,
                        !.epics_out = IF epicsRun /\ epicsOk THEN er.items ELSE <<>>,
                        !.stories_called = storiesRun,
                        !.stories_out = IF storiesRun /\ storiesOk THEN sr.items ELSE <<>>,
                        !.qa_context = Agents_build_qa_context(questions),
                        !.epic_context = IF ~storiesRun THEN <<>>
                                         ELSE IF epicsRun THEN er.items ELSE epics]
        /\ UNCHANGED <<flow, generation_type, hlr, slicing_type, persona, questions, responses,
                       validation_results, feedback_history, feedback_count,
                       overall_confidence, AgentsOnly>>

\* apply_feedback putting the feedback in front of the history
apply_feedback_prepending(feedback, r) ==
    [phase |-> "feedback_processing",
     epics |-> epics,
     user_stories |-> user_stories,
     feedback_history |-> <<feedback>> \o feedback_history,
     feedback_count |-> feedback_count + 1,
     errors |-> errors,
     raised |-> FALSE,
     epics_called |-> FALSE, epics_out |-> <<>>,
     stories_called |-> FALSE, stories_out |-> <<>>]

\* FeedbackAgent.apply_feedback(state, feedback) with model reply r: the values
\* of the fields it writes, and whether it raised
apply_feedback(feedback, r) ==
    LET parsed == r.kind = "json"
        epicsKey == parsed /\ WantsEpics(generation_type) /\ r.has_epics
        epicsBuilt == epicsKey /\ WellFormed(r.epics)          \* _rebuild_epics returned
        epicsFailed == epicsKey /\ ~WellFormed(r.epics)
        storiesKey == parsed /\ ~epicsFailed /\ WantsStories(generation_type) /\ r.has_stories
        storiesBuilt == storiesKey /\ WellFormed(r.user_stories)
        storiesFailed == storiesKey /\ ~WellFormed(r.user_stories)
        ok == parsed /\ ~epicsFailed /\ ~storiesFailed
    IN  [phase |-> "feedback_processing",
         epics |-> IF epicsBuilt THEN r.epics ELSE epics,
         user_stories |-> IF storiesBuilt THEN r.user_stories ELSE user_stories,
         feedback_history |-> IF ok THEN Append(feedback_history, feedback) ELSE feedback_history,
         feedback_count |-> IF ok THEN feedback_count + 1 ELSE feedback_count,
         errors |-> IF ok THEN errors ELSE errors \cup {"Feedback application error"},
         raised |-> ~ok,
         epics_called |-> parsed /\ WantsEpics(generation_type),
         epics_out |-> IF epicsBuilt THEN r.epics ELSE <<>>,
         stories_called |-> parsed /\ ~epicsFailed /\ WantsStories(generation_type),
         stories_out |-> IF storiesBuilt THEN r.user_stories ELSE <<>>]

\* FeedbackLimitReached with the comparison off by one
FeedbackLimitOffByOne(count) == count > MaxFeedback

\* FeedbackLimitReached without any limit
FeedbackLimitIgnored(count) == FALSE

\* process_feedback: if state.feedback_count >= 3
FeedbackLimitReached(count) == count >= MaxFeedback

\* process_feedback discarding the questions when it applies a feedback
process_feedback_requestioning(feedback, verdict, r) ==
    /\ flow \in FeedbackFlows
    /\ pc = "content"
    /\ ~FeedbackLimitReached(feedback_count)
    /\ questions' = <<>>
    /\ feedback_history' = Append(feedback_history, feedback)
    /\ feedback_count' = feedback_count + 1
    /\ last' = [Call("process_feedback") EXCEPT !.validated = TRUE, !.regenerated = TRUE,
                                                !.applied = TRUE]
    /\ UNCHANGED <<flow, pc, phase, generation_type, hlr, slicing_type, persona, responses,
                   validation_results, epics, user_stories, overall_confidence, errors,
                   AgentsOnly>>

\* JIRAAgentSystem.process_feedback(state, feedback)
\* verdict is the reply to the feedback-validation call, r the reply to the
\* regeneration call; the host's locals are the caller's to change
process_feedback(feedback, verdict, r) ==
    /\ flow \in FeedbackFlows
    /\ pc = "content"
    /\ IF FeedbackLimitReached(feedback_count)
       THEN \* maximum feedback limit reached: return state, False
            /\ last' = Call("process_feedback")
            /\ pc' = AfterFeedback
            /\ UNCHANGED <<phase, epics, user_stories, feedback_history, feedback_count, errors>>
       ELSE IF verdict.kind # "json"
       THEN \* validate_feedback raises
            /\ last' = [Call("process_feedback") EXCEPT !.validated = TRUE, !.raised = TRUE,
                                                        !.failed = {"feedback_validation"}]
            /\ pc' = FeedbackRaised
            /\ UNCHANGED <<phase, epics, user_stories, feedback_history, feedback_count, errors>>
       ELSE IF ~verdict.is_valid
       THEN /\ last' = [Call("process_feedback") EXCEPT !.validated = TRUE]
            /\ pc' = AfterFeedback
            /\ UNCHANGED <<phase, epics, user_stories, feedback_history, feedback_count, errors>>
       ELSE \E a \in {apply_feedback(feedback, r)} :
                /\ phase' = a.phase
                /\ epics' = a.epics
                /\ user_stories' = a.user_stories
                /\ feedback_history' = a.feedback_history
                /\ feedback_count' = a.feedback_count
                /\ errors' = a.errors
                /\ pc' = IF a.raised THEN FeedbackRaised ELSE AfterFeedback
                /\ last' = [Call("process_feedback") EXCEPT
                                !.validated = TRUE, !.regenerated = TRUE,
                                !.applied = ~a.raised, !.raised = a.raised,
                                !.failed = IF a.raised THEN {"feedback_apply"} ELSE {},
                                !.epics_called = a.epics_called, !.epics_out = a.epics_out,
                                !.stories_called = a.stories_called,
                                !.stories_out = a.stories_out]
    /\ UNCHANGED <<flow, generation_type, hlr, slicing_type, persona, questions, responses,
                   validation_results, overall_confidence, AgentsUnused>>

\* JIRAAgentSystem._complete_node: the last node of the compiled workflow graph
complete_node ==
    /\ flow = "agents"
    /\ pc = "content"
    /\ phase # "complete"
    /\ phase' = "complete"
    /\ last' = Call("_complete_node")
    /\ UNCHANGED <<flow, pc, generation_type, hlr, slicing_type, persona, questions, responses,
                   validation_results, epics, user_stories, feedback_history, feedback_count,
                   overall_confidence, errors, AgentsOnly>>

(***************************************************************************)
(* main.py: the components.                                                *)
(***************************************************************************)
\* the dict analyze_requirement returns when the model call or the parse fails
DefaultAnalysis == [slicing_type |-> "functional", recommended_persona |-> "Business Analyst",
                    confidence |-> DefaultAnalysisConfidence]

\* the ValidationResult validate_response returns on failure
DefaultValidation == [is_valid |-> TRUE, overall_score |-> DefaultValidationScore]

\* RequirementAnalysisAgent.analyze_requirement (main.py)
Main_analyze_requirement(r) ==
    IF r.kind = "json"
    THEN [slicing_type |-> r.slicing_type, recommended_persona |-> r.recommended_persona,
          confidence |-> r.confidence]
    ELSE DefaultAnalysis

\* dict.get(key, default)
Get(value, default) == IF value = Missing THEN default ELSE value

\* generate_questions falling back to a stock question when the call fails
Main_generate_questions_stock(r) ==
    IF r.kind = "json" THEN NewQuestions(r.count) ELSE <<NewQuestion>>

\* RequirementAnalysisAgent.generate_questions (main.py)
Main_generate_questions(r) == IF r.kind = "json" THEN NewQuestions(r.count) ELSE <<>>

\* validate_response with a failure default that rejects the answer
Main_validate_response_rejecting(r) ==
    IF r.kind = "json" THEN ValidationResult(r) ELSE [is_valid |-> FALSE, overall_score |-> 0]

\* RequirementAnalysisAgent.validate_response (main.py)
Main_validate_response(r) == IF r.kind = "json" THEN ValidationResult(r) ELSE DefaultValidation

\* EpicGeneratorAgent.generate_epics (main.py)
Main_generate_epics(r) == IF r.kind = "json" THEN r.items ELSE <<>>

\* UserStoryGeneratorAgent.generate_user_stories (main.py)
Main_generate_user_stories(r) == IF r.kind = "json" THEN r.items ELSE <<>>

\* EpicGeneratorAgent._build_qa_context / UserStoryGeneratorAgent._build_qa_context
\* (main.py): the responses written into the context
Main_build_qa_context(qa_responses) ==
    {qa_responses[q] : q \in {k \in DOMAIN qa_responses :
                                 qa_responses[k] # "" /\ qa_responses[k] # SKIPPED}}

Failed(r, name) == IF r.kind = "json" THEN {} ELSE {name}

AgentsNext ==
    \/ \E r \in AgentsAnalysisReplies : flow # "cli" /\ Agents_analyze_requirement(r)
    \/ \E r \in QuestionReplies : flow # "cli" /\ Agents_generate_questions(r)
    \/ \E skipped \in SUBSET QuestionIds, answered \in SUBSET QuestionIds :
          \E qa \in [answered -> Answers \cup {""}] :
             \E replies \in [{q \in answered : q \notin skipped /\ qa[q] # ""} -> ValidationReplies] :
                flow # "cli" /\ process_qa_session(qa, skipped, replies)
    \/ \E er \in IF WantsEpics(generation_type) THEN GenerationReplies ELSE {NoGenerationReply} :
          \E sr \in IF WantsStories(generation_type)
                       /\ (WantsEpics(generation_type) => Agents_generates(er))
                    THEN GenerationReplies ELSE {NoGenerationReply} :
             flow # "cli" /\ generate_content(er, sr)
    \/ \E verdict \in FeedbackVerdicts :
          \E r \in IF verdict.kind = "json" /\ verdict.is_valid
                       /\ ~FeedbackLimitReached(feedback_count)
                    THEN FeedbackRepliesFor(generation_type) ELSE {NoReply} :
             /\ flow = "agents"
             /\ process_feedback(Feedbacks[feedback_count + 1], verdict, r)
             /\ UNCHANGED local
    \/ complete_node

(***************************************************************************)
(* agents.py: main(), the interactive session ("cli").  It drives the      *)
(* engine through one session: analysis, questions, one Q&A pass over the  *)
(* answers typed, generation, the feedback loop, export.                   *)
(***************************************************************************)
\* main(): the Q&A pass.  A typed 'skip' puts the id in skipped_questions, any
\* other non-empty text in qa_responses, an empty line in neither
main_qa(qa_responses, skipped_questions, replies) ==
    /\ flow = "cli"
    /\ process_qa_session(qa_responses, skipped_questions, replies)

\* main(): one round of `while state.feedback_count < 3` in which the user is
\* not satisfied and types a feedback, which goes to process_feedback.  The
\* model follows the loop for MaxFeedback + 1 rounds.
main_feedback_round(feedback, verdict, r) ==
    /\ flow = "cli"
    /\ feedback_count < MaxFeedback
    /\ local.feedback_rounds <= MaxFeedback
    /\ process_feedback(feedback, verdict, r)
    /\ local' = [local EXCEPT !.feedback_rounds = @ + 1]

\* main(): the loop is left (the count reached 3, the user typed 'yes', or
\* typed no feedback) and the session goes to export_final_output
main_export ==
    /\ flow = "cli"
    /\ pc = "content"
    /\ pc' = "export"
    /\ last' = Call("export_final_output")
    /\ UNCHANGED <<flow, phase, generation_type, hlr, slicing_type, persona, questions,
                   responses, validation_results, epics, user_stories, feedback_history,
                   feedback_count, overall_confidence, errors, AgentsOnly>>

(***************************************************************************)
(* pages/chatbot.py: the Streamlit chat page ("chat").  Every run of the   *)
(* script handles the step in st.session_state.step; pc is that step, and  *)
(* inside the steps "analyze" and "generate", which call the engine twice, *)
(* the call about to be made.                                              *)
(***************************************************************************)
\* step "qa": the user's line for the question at question_idx, 'skip' or an
\* answer (st.chat_input never returns an empty line)
chat_qa(user_input) ==
    LET q == local.qidx + 1
    IN  /\ flow = "chat"
        /\ pc = "qa"
        /\ local.qidx < Len(questions)
        /\ local' = IF user_input = "skip"
                     THEN [local EXCEPT !.qidx = @ + 1, !.skipped_questions = @ \cup {q}]
                     ELSE [local EXCEPT !.qidx = @ + 1,
                                        !.qa_responses = (q :> user_input) @@ @]
        /\ last' = Call("qa")
        /\ UNCHANGED <<flow, pc, phase, generation_type, hlr, slicing_type, persona, questions,
                       responses, validation_results, epics, user_stories, feedback_history,
                       feedback_count, overall_confidence, errors, AgentsUnused>>

\* step "generate", first call: process_qa_session on the answers collected
chat_process_qa(replies) ==
    /\ flow = "chat"
    /\ local.qidx >= Len(questions)
    /\ process_qa_session(local.qa_responses, local.skipped_questions, replies)

\* step "feedback": a line of the user.  'yes' goes to export; anything else
\* goes to process_feedback, and when that returns the page counts the attempt
\* and goes to export at the third.  The model follows MaxFeedback + 1 lines.
chat_feedback(user_input, verdict, r) ==
    /\ flow = "chat"
    /\ pc = "content"
    /\ IF user_input = "yes"
       THEN /\ pc' = "export"
            /\ last' = Call("feedback")
            /\ UNCHANGED <<flow, phase, generation_type, hlr, slicing_type, persona,
                           questions, responses, validation_results, epics, user_stories,
                           feedback_history, feedback_count, overall_confidence, errors,
                           AgentsOnly>>
       ELSE /\ local.feedback_rounds <= MaxFeedback
            /\ process_feedback(user_input, verdict, r)
            /\ local' = [local EXCEPT
                            !.feedback_rounds = @ + 1,
                            !.feedback_count = IF last'.raised THEN @ ELSE @ + 1]

\* step "export": export_final_output and save_output_to_file
chat_export ==
    /\ flow = "chat"
    /\ pc = "export"
    /\ pc' = "done"
    /\ last' = Call("export_final_output")
    /\ UNCHANGED <<flow, phase, generation_type, hlr, slicing_type, persona, questions,
                   responses, validation_results, epics, user_stories, feedback_history,
                   feedback_count, overall_confidence, errors, AgentsOnly>>

ChatNext ==
    \/ \E r \in AgentsAnalysisReplies : flow = "chat" /\ Agents_analyze_requirement(r)
    \/ \E r \in QuestionReplies : flow = "chat" /\ Agents_generate_questions(r)
    \/ \E user_input \in Answers \cup {"skip"} : chat_qa(user_input)
    \/ \E replies \in [DOMAIN local.qa_responses -> ValidationReplies] :
          chat_process_qa(replies)
    \/ \E er \in IF WantsEpics(generation_type) THEN GenerationReplies ELSE {NoGenerationReply} :
          \E sr \in IF WantsStories(generation_type)
                       /\ (WantsEpics(generation_type) => Agents_generates(er))
                    THEN GenerationReplies ELSE {NoGenerationReply} :
             flow = "chat" /\ pc = "generate" /\ generate_content(er, sr)
    \/ chat_feedback("yes", NoVerdict, NoReply)
    \/ \E verdict \in FeedbackVerdicts :
          \E r \in IF verdict.kind = "json" /\ verdict.is_valid
                    THEN FeedbackRepliesFor(generation_type) ELSE {NoReply} :
             chat_feedback(Feedbacks[feedback_count + 1], verdict, r)
    \/ chat_export

CliNext ==
    \/ \E r \in AgentsAnalysisReplies : flow = "cli" /\ Agents_analyze_requirement(r)
    \/ \E r \in QuestionReplies : flow = "cli" /\ Agents_generate_questions(r)
    \/ \E skipped \in SUBSET QuestionIds :
          \E answered \in SUBSET (QuestionIds \ skipped) :
             \E qa \in [answered -> Answers] :
                \E replies \in [answered -> ValidationReplies] :
                   main_qa(qa, skipped, replies)
    \/ \E er \in IF WantsEpics(generation_type) THEN GenerationReplies ELSE {NoGenerationReply} :
          \E sr \in IF WantsStories(generation_type)
                       /\ (WantsEpics(generation_type) => Agents_generates(er))
                    THEN GenerationReplies ELSE {NoGenerationReply} :
             flow = "cli" /\ pc = "generate" /\ generate_content(er, sr)
    \/ \E verdict \in FeedbackVerdicts :
          \E r \in IF verdict.kind = "json" /\ verdict.is_valid
                    THEN FeedbackRepliesFor(generation_type) ELSE {NoReply} :
             main_feedback_round(Feedbacks[feedback_count + 1], verdict, r)
    \/ main_export

(***************************************************************************)
(* main.py: the workflow graph.  pc is the node about to run; inside       *)
(* requirement_analysis_node and feedback_node it is the loop the node is  *)
(* in, one action per iteration (one round of prompts).                    *)
(***************************************************************************)
\* run_workflow: initial_state
initial_state ==
    /\ pc = "start"
    /\ phase = "input"
    /\ generation_type = "both"
    /\ workflow_type = ""
    /\ hlr = ""
    /\ selected_project = None
    /\ selected_issues = <<>>
    /\ issues_detail = ""
    /\ slicing_type = ""
    /\ persona = ""
    /\ questions = <<>>
    /\ responses = EmptyMap
    /\ validation_results = EmptyMap
    /\ requirement_analysis = NoAnalysis
    /\ epics = <<>>
    /\ user_stories = <<>>
    /\ feedback_history = <<>>
    /\ feedback_count = 0
    /\ overall_confidence = Zero
    /\ errors = {}
    /\ local = NoLocals
    /\ last = NoCall

Content == <<epics, user_stories, feedback_history, feedback_count>>
QAState == <<questions, responses, validation_results, overall_confidence>>
Analysis == <<slicing_type, persona, requirement_analysis>>
Jira == <<selected_project, selected_issues, issues_detail>>

\* should_use_jira routing every session through the JIRA node
should_use_jira_always(wt) == "jira_integration"

\* should_use_jira
should_use_jira(wt) == IF wt = "existing" THEN "jira_integration" ELSE "new_requirement"

\* start_node; choice is what get_user_choice returns
start_node(choice) ==
    /\ flow = "main"
    /\ pc = "start"
    /\ workflow_type' = choice
    /\ phase' = "input"
    /\ pc' = should_use_jira(choice)
    /\ last' = Call("start")
    /\ UNCHANGED <<flow, generation_type, hlr, Jira, Analysis, QAState, Content, errors, local>>

\* jira_integration_node.  model_fails: a model call of JiraIntegrationAgent.query
\* raises; projects: get_projects found some; issues: the issue keys found;
\* text: what get_hlr_input returns
jira_integration_node(model_fails, projects, issues, text) ==
    /\ flow = "main"
    /\ pc = "jira_integration"
    /\ IF model_fails
       THEN \* query has no handler: the exception leaves the node and the graph
            /\ pc' = "aborted"
            /\ last' = [Call("jira_integration") EXCEPT !.raised = TRUE, !.failed = {"jira"}]
            /\ UNCHANGED <<hlr, Jira, errors>>
       ELSE IF ~projects
       THEN /\ errors' = errors \cup {"No JIRA projects found or JIRA not configured"}
            /\ pc' = "requirement_analysis"
            /\ last' = Call("jira_integration")
            /\ UNCHANGED <<hlr, Jira>>
       ELSE /\ selected_project' = "PRJ"
            /\ issues_detail' = IF issues # <<>> THEN "issues" ELSE ""
            /\ selected_issues' = issues
            /\ hlr' = text
            /\ pc' = "requirement_analysis"
            /\ last' = Call("jira_integration")
            /\ errors' = errors
    /\ UNCHANGED <<flow, phase, generation_type, workflow_type, Analysis, QAState, Content, local>>

\* new_requirement_node
new_requirement_node(text) ==
    /\ flow = "main"
    /\ pc = "new_requirement"
    /\ hlr' = text
    /\ pc' = "requirement_analysis"
    /\ last' = Call("new_requirement")
    /\ UNCHANGED <<flow, phase, generation_type, workflow_type, Jira, Analysis, QAState,
                   Content, errors, local>>

\* get_persona_with_suggestion; choice is "ok" or a persona the user typed
get_persona_with_suggestion(recommended, choice) ==
    IF choice = "ok" THEN recommended ELSE choice

\* requirement_analysis_node up to the Q&A loop: the analysis, the persona
\* prompt and the question generation
requirement_analysis_node(model_fails, ar, choice, qr) ==
    LET guided == workflow_type = "existing" /\ selected_issues # <<>>
        analysis == Main_analyze_requirement(ar)
        recommended == Get(analysis.recommended_persona, "Business Analyst")
    IN  /\ flow = "main"
        /\ pc = "requirement_analysis"
        /\ IF hlr = ""
           THEN /\ phase' = "analyzing"
                /\ errors' = errors \cup {"No HLR provided"}
                /\ pc' = "setup_generation"
                /\ last' = Call("requirement_analysis")
                /\ UNCHANGED <<Analysis, questions, local>>
           ELSE IF guided /\ model_fails
           THEN \* get_projects / get_issues_enhanced / generate_context_guidance raise
                /\ phase' = "analyzing"
                /\ pc' = "aborted"
                /\ last' = [Call("requirement_analysis") EXCEPT !.raised = TRUE,
                                                                !.failed = {"jira"}]
                /\ UNCHANGED <<Analysis, questions, local, errors>>
           ELSE /\ requirement_analysis' = analysis
                /\ slicing_type' = Get(analysis.slicing_type, "functional")
                /\ persona' = get_persona_with_suggestion(recommended, choice)
                /\ phase' = "questioning"
                /\ questions' = Main_generate_questions(qr)
                /\ local' = [local EXCEPT !.qidx = 1, !.jira_guidance = guided]
                /\ pc' = "qa_loop"
                /\ last' = [Call("requirement_analysis") EXCEPT
                                !.failed = Failed(ar, "analysis") \cup Failed(qr, "questions")]
                /\ errors' = errors
        /\ UNCHANGED <<flow, generation_type, workflow_type, hlr, Jira, responses,
                       validation_results, overall_confidence, Content>>

\* requirement_analysis_node, one iteration of the Q&A loop: the question at
\* local.qidx is presented; response is the stripped input line, vr the reply to
\* the validation call, retry / new_response the answers to the retry prompts
requirement_analysis_qa(response, vr, retry, new_response) ==
    LET i == local.qidx
        result == Main_validate_response(vr)
        offered == ~result.is_valid /\ vr.kind = "json" /\ vr.has_issues
        stored == IF offered /\ retry /\ new_response # "" THEN new_response ELSE response
    IN  /\ flow = "main"
        /\ pc = "qa_loop"
        /\ i <= Len(questions)
        /\ IF response = "skip"
           THEN /\ questions' = [questions EXCEPT ![i] = [@ EXCEPT !.skipped = TRUE,
                                                                    !.answered = TRUE,
                                                                    !.answer = SKIPPED]]
                /\ local' = [local EXCEPT !.qidx = i + 1]
                /\ last' = Call("requirement_analysis_qa")
                /\ UNCHANGED <<phase, validation_results>>
           ELSE IF response # ""
           THEN /\ phase' = "validating"
                /\ questions' = [questions EXCEPT ![i] = [@ EXCEPT !.answered = TRUE,
                                                                    !.answer = stored]]
                /\ validation_results' = (i :> result) @@ validation_results
                /\ local' = [local EXCEPT !.qidx = i + 1,
                                          !.qa_responses = (i :> stored) @@ @,
                                          !.validated_on = (i :> response) @@ @]
                /\ last' = [Call("requirement_analysis_qa") EXCEPT
                                !.validated = TRUE, !.failed = Failed(vr, "validation")]
           ELSE /\ local' = [local EXCEPT !.qidx = i + 1]
                /\ last' = Call("requirement_analysis_qa")
                /\ UNCHANGED <<phase, questions, validation_results>>
        /\ UNCHANGED <<flow, pc, generation_type, workflow_type, hlr, Jira, Analysis, responses,
                       overall_confidence, Content, errors>>

\* requirement_analysis_node ending the run when no answer was judged valid
requirement_analysis_return_gated ==
    /\ flow = "main"
    /\ pc = "qa_loop"
    /\ local.qidx > Len(questions)
    /\ responses' = local.qa_responses
    /\ overall_confidence' = Confidence(validation_results)
    /\ pc' = IF validation_results # EmptyMap /\ Confidence(validation_results) = Zero
             THEN "end" ELSE "setup_generation"
    /\ last' = Call("requirement_analysis_return")
    /\ UNCHANGED <<flow, phase, generation_type, workflow_type, hlr, Jira, Analysis, questions,
                   validation_results, Content, errors, local>>

\* requirement_analysis_node after the loop: responses and overall_confidence
requirement_analysis_return ==
    /\ flow = "main"
    /\ pc = "qa_loop"
    /\ local.qidx > Len(questions)
    /\ responses' = local.qa_responses
    /\ overall_confidence' = Confidence(validation_results)
    /\ pc' = "setup_generation"
    /\ last' = Call("requirement_analysis_return")
    /\ UNCHANGED <<flow, phase, generation_type, workflow_type, hlr, Jira, Analysis, questions,
                   validation_results, Content, errors, local>>

\* setup_generation_node starting the phases over
setup_generation_restarting(gt) ==
    /\ flow = "main"
    /\ pc = "setup_generation"
    /\ generation_type' = gt
    /\ phase' = "input"
    /\ pc' = "generation"
    /\ last' = Call("setup_generation")
    /\ UNCHANGED <<flow, workflow_type, hlr, Jira, Analysis, QAState, Content, errors, local>>

\* setup_generation_node; gt is what get_generation_type returns
setup_generation_node(gt) ==
    /\ flow = "main"
    /\ pc = "setup_generation"
    /\ generation_type' = gt
    /\ pc' = "generation"
    /\ last' = Call("setup_generation")
    /\ UNCHANGED <<flow, phase, workflow_type, hlr, Jira, Analysis, QAState, Content, errors,
                   local>>

\* the story generator reading an epics list from before the pass
StoryEpicsStale(doEpics, er) == epics

\* state.get("epics", []) when generate_user_stories is called: the list the
\* epic generator of the same pass has just stored, if it ran
StoryEpics(doEpics, er) == IF doEpics THEN Main_generate_epics(er) ELSE epics

\* one generation pass of main.py (generation_node, feedback_node): the new
\* epics and user_stories for replies er and sr, and the record of the pass
Regenerate(op, er, sr) ==
    LET doEpics == WantsEpics(generation_type)
        doStories == WantsStories(generation_type)
    IN  [epics |-> IF doEpics THEN Main_generate_epics(er) ELSE epics,
         user_stories |-> IF doStories THEN Main_generate_user_stories(sr) ELSE user_stories,
         last |-> [Call(op) EXCEPT
                     !.regenerated = TRUE,
                     !.failed = (IF doEpics THEN Failed(er, "epics") ELSE {})
                                \cup (IF doStories THEN Failed(sr, "stories") ELSE {}),
                     !.epics_called = doEpics,
                     !.epics_out = IF doEpics THEN Main_generate_epics(er) ELSE <<>>,
                     !.stories_called = doStories,
                     !.stories_out = IF doStories THEN Main_generate_user_stories(sr) ELSE <<>>,
                     !.qa_context = Main_build_qa_context(responses),
                     !.epic_context = IF doStories THEN StoryEpics(doEpics, er) ELSE <<>>]]

\* generation_node
generation_node(er, sr) ==
    \E g \in {Regenerate("generation", er, sr)} :
        /\ flow = "main"
        /\ pc = "generation"
        /\ phase' = "generating"
        /\ epics' = g.epics
        /\ user_stories' = g.user_stories
        /\ local' = [local EXCEPT !.gen_passes = @ + 1]
        /\ pc' = "feedback"
        /\ last' = g.last
        /\ UNCHANGED <<flow, generation_type, workflow_type, hlr, Jira, Analysis, QAState,
                       feedback_history, feedback_count, errors>>

\* feedback_node: one iteration of the feedback loop, or its end.  satisfied is
\* the answer to the first prompt, feedback the stripped text of the second
feedback_node(satisfied, feedback, er, sr) ==
    \E g \in {Regenerate("feedback", er, sr)} :
        /\ flow = "main"
        /\ pc = "feedback"
        /\ IF feedback_count < MaxFeedback /\ ~satisfied /\ feedback # ""
           THEN /\ feedback_history' = Append(feedback_history, feedback)
                /\ feedback_count' = feedback_count + 1
                /\ epics' = g.epics
                /\ user_stories' = g.user_stories
                /\ local' = [local EXCEPT !.gen_passes = @ + 1]
                /\ pc' = pc
                /\ last' = g.last
           ELSE /\ pc' = "final_validation"
                /\ last' = Call("feedback")
                /\ UNCHANGED <<Content, local>>
        /\ UNCHANGED <<flow, phase, generation_type, workflow_type, hlr, Jira, Analysis, QAState,
                       errors>>

\* final_validation_node recording nothing about empty content
final_validation_silent ==
    /\ flow = "main"
    /\ pc = "final_validation"
    /\ phase' = "complete"
    /\ pc' = "end"
    /\ last' = Call("final_validation")
    /\ UNCHANGED <<flow, generation_type, workflow_type, hlr, Jira, Analysis, QAState, Content,
                   local, errors>>

\* final_validation_node
final_validation_node ==
    /\ flow = "main"
    /\ pc = "final_validation"
    /\ phase' = "complete"
    /\ errors' = IF epics = <<>> /\ user_stories = <<>>
                 THEN errors \cup {"No content generated"} ELSE errors
    /\ pc' = "end"
    /\ last' = Call("final_validation")
    /\ UNCHANGED <<flow, generation_type, workflow_type, hlr, Jira, Analysis, QAState, Content,
                   local>>

NoValidationReply == [kind |-> "raise", is_valid |-> FALSE, overall_score |-> 0,
                      has_issues |-> FALSE]

\* the replies to the generation calls a pass of main.py makes, if it runs
EpicRepliesIf(runs) ==
    IF runs /\ WantsEpics(generation_type) THEN MainGenerationReplies ELSE {NoGenerationReply}
StoryRepliesIf(runs) ==
    IF runs /\ WantsStories(generation_type) THEN MainGenerationReplies ELSE {NoGenerationReply}

MainNext ==
    \/ \E choice \in {"existing", "new"} : start_node(choice)
    \/ \E model_fails \in BOOLEAN, projects \in BOOLEAN :
          \E issues \in IF ~model_fails /\ projects THEN {<<"PRJ-1">>} ELSE {<<>>},
             text \in IF ~model_fails /\ projects THEN {"", "req"} ELSE {""} :
             jira_integration_node(model_fails, projects, issues, text)
    \/ \E text \in {"", "req"} : new_requirement_node(text)
    \/ \E model_fails \in BOOLEAN, ar \in MainAnalysisReplies, qr \in QuestionReplies :
          \E choice \in IF ar.kind = "json" /\ ar.recommended_persona = Missing
                         THEN {"Custom"} ELSE {"ok"} :
             requirement_analysis_node(model_fails, ar, choice, qr)
    \/ \E response \in {"skip", ""} \cup Answers :
          \E vr \in IF response \in Answers THEN MainValidationReplies ELSE {NoValidationReply} :
             \E retry \in IF vr.kind = "json" /\ ~vr.is_valid /\ vr.has_issues
                          THEN BOOLEAN ELSE {FALSE} :
                \E new_response \in IF retry THEN RetryAnswers \cup {""} ELSE {""} :
                   requirement_analysis_qa(response, vr, retry, new_response)
    \/ requirement_analysis_return
    \/ \E gt \in GenerationTypes : setup_generation_node(gt)
    \/ \E er \in EpicRepliesIf(TRUE), sr \in StoryRepliesIf(TRUE) : generation_node(er, sr)
    \/ \E satisfied \in BOOLEAN, feedback \in {"", Feedbacks[feedback_count + 1]} :
          \E er \in EpicRepliesIf(~satisfied /\ feedback # "" /\ feedback_count < MaxFeedback),
             sr \in StoryRepliesIf(~satisfied /\ feedback # "" /\ feedback_count < MaxFeedback) :
             feedback_node(satisfied, feedback, er, sr)
    \/ final_validation_node

(***************************************************************************)
(* main_interface.py: the Streamlit chat flow.  pc is st.session_state.step *)
(* and one action is one run of the script that handles a user input; the  *)
(* agents it calls are the components of main.py.                          *)
(***************************************************************************)
\* the session state of a fresh browser session
ui_session_state ==
    /\ pc = "hlr"
    /\ phase = "input"
    /\ generation_type = "both"
    /\ workflow_type = ""
    /\ hlr = ""
    /\ selected_project = None
    /\ selected_issues = <<>>
    /\ issues_detail = ""
    /\ slicing_type = ""
    /\ persona = ""
    /\ questions = <<>>
    /\ responses = EmptyMap
    /\ validation_results = EmptyMap
    /\ requirement_analysis = NoAnalysis
    /\ epics = <<>>
    /\ user_stories = <<>>
    /\ feedback_history = <<>>
    /\ feedback_count = 0
    /\ overall_confidence = Zero
    /\ errors = {}
    /\ local = NoLocals
    /\ last = NoCall

UIFrame == <<flow, phase, validation_results, overall_confidence, errors>>

\* step "hlr": keyword is whether the input contains one of the keywords
ui_hlr(keyword) ==
    /\ flow = "ui"
    /\ pc = "hlr"
    /\ pc' = IF keyword THEN "jira_projects" ELSE "hlr"
    /\ last' = Call("hlr")
    /\ UNCHANGED <<UIFrame, generation_type, workflow_type, hlr, Jira, Analysis, questions,
                   responses, Content, local>>

\* step "jira_projects": found is whether get_projects_agentic returns projects
\* (asked only when none are loaded); a project is then selected
ui_jira_projects(found) ==
    LET loaded == IF local.projects = "unloaded"
                  THEN (IF found THEN "some" ELSE "none")
                  ELSE local.projects
    IN  /\ flow = "ui"
        /\ pc = "jira_projects"
        /\ IF loaded = "none"
           THEN /\ pc' = "hlr"
                /\ local' = [local EXCEPT !.projects = loaded]
                /\ UNCHANGED selected_project
           ELSE /\ selected_project' = "PRJ"
                /\ pc' = "workflow_choice"
                /\ local' = [local EXCEPT !.projects = "unloaded"]
        /\ last' = Call("jira_projects")
        /\ UNCHANGED <<UIFrame, generation_type, workflow_type, hlr, selected_issues,
                       issues_detail, Analysis, questions, responses, Content>>

\* step "workflow_choice": one of the two buttons
ui_workflow_choice(choice) ==
    /\ flow = "ui"
    /\ pc = "workflow_choice"
    /\ workflow_type' = choice
    /\ pc' = IF choice = "existing" THEN "jira_issues" ELSE "hlr_input"
    /\ last' = Call("workflow_choice")
    /\ UNCHANGED <<UIFrame, generation_type, hlr, Jira, Analysis, questions, responses,
                   Content, local>>

\* step "jira_issues": issues are the keys get_issues_agentic returns (asked
\* only when none are loaded); an issue can be selected if there is one
ui_jira_issues(issues) ==
    LET keys == IF local.issues_loaded THEN selected_issues ELSE issues
    IN  /\ flow = "ui"
        /\ pc = "jira_issues"
        /\ selected_issues' = keys
        /\ issues_detail' = IF keys # <<>> THEN "issues" ELSE ""
        /\ IF keys # <<>>
           THEN /\ hlr' = "issue"
                /\ pc' = "analyze"
                /\ local' = [local EXCEPT !.issues_loaded = FALSE]
           ELSE /\ pc' = pc
                /\ local' = [local EXCEPT !.issues_loaded = TRUE]
                /\ UNCHANGED hlr
        /\ last' = Call("jira_issues")
        /\ UNCHANGED <<UIFrame, generation_type, workflow_type, selected_project, Analysis,
                       questions, responses, Content>>

\* step "hlr_input": a non-empty chat input
ui_hlr_input(user_input) ==
    /\ flow = "ui"
    /\ pc = "hlr_input"
    /\ user_input # ""
    /\ hlr' = user_input
    /\ pc' = "additional_inputs"
    /\ last' = Call("hlr_input")
    /\ UNCHANGED <<UIFrame, generation_type, workflow_type, Jira, Analysis, questions,
                   responses, Content, local>>

\* step "additional_inputs"
ui_additional_inputs ==
    /\ flow = "ui"
    /\ pc = "additional_inputs"
    /\ pc' = "analyze"
    /\ last' = Call("additional_inputs")
    /\ UNCHANGED <<UIFrame, generation_type, workflow_type, hlr, Jira, Analysis, questions,
                   responses, Content, local>>


\* step "analyze": the analysis and the question generation, unless the session
\* already holds both
ui_analyze(ar, qr) ==
    LET analysis == Main_analyze_requirement(ar)
        recommended == Get(analysis.recommended_persona, "Business Analyst")
        runs == requirement_analysis = NoAnalysis \/ questions = <<>>
    IN  /\ flow = "ui"
        /\ pc = "analyze"
        /\ IF runs
           THEN /\ requirement_analysis' = analysis
                /\ slicing_type' = Get(analysis.slicing_type, "functional")
                /\ persona' = recommended
                /\ questions' = Main_generate_questions(qr)
                /\ local' = [local EXCEPT !.jira_guidance = workflow_type = "existing"]
                /\ last' = [Call("analyze") EXCEPT
                                !.failed = Failed(ar, "analysis") \cup Failed(qr, "questions")]
           ELSE /\ last' = Call("analyze")
                /\ UNCHANGED <<Analysis, questions, local>>
        /\ pc' = "persona_confirm"
        /\ UNCHANGED <<UIFrame, generation_type, workflow_type, hlr, Jira, responses, Content>>

\* step "persona_confirm": choice is "ok" (use the suggested persona) or a
\* custom persona
ui_persona_confirm(choice) ==
    /\ flow = "ui"
    /\ pc = "persona_confirm"
    /\ persona' = IF choice = "ok" THEN persona ELSE choice
    /\ pc' = "qa"
    /\ last' = Call("persona_confirm")
    /\ UNCHANGED <<UIFrame, generation_type, workflow_type, hlr, Jira, slicing_type,
                   requirement_analysis, questions, responses, Content, local>>

\* step "qa": the question at question_idx is skipped or answered with a
\* non-empty input; past the last question the step moves on
ui_qa(user_input) ==
    LET idx == local.qidx
    IN  /\ flow = "ui"
        /\ pc = "qa"
        /\ IF idx < Len(questions)
           THEN /\ user_input # ""
                /\ responses' = ((idx + 1) :> (IF user_input = "skip" THEN SKIPPED ELSE user_input))
                                @@ responses
                /\ local' = [local EXCEPT !.qidx = idx + 1]
                /\ pc' = pc
           ELSE /\ pc' = "generation_type"
                /\ UNCHANGED <<responses, local>>
        /\ last' = Call("qa")
        /\ UNCHANGED <<UIFrame, generation_type, workflow_type, hlr, Jira, Analysis, questions,
                       Content>>

\* step "generation_type"
ui_generation_type(gt) ==
    /\ flow = "ui"
    /\ pc = "generation_type"
    /\ generation_type' = gt
    /\ pc' = "generate"
    /\ last' = Call("generation_type")
    /\ UNCHANGED <<UIFrame, workflow_type, hlr, Jira, Analysis, questions, responses, Content,
                   local>>

\* step "generate": one generation pass unless generation_done is set
ui_generate(er, sr) ==
    \E g \in {Regenerate("generate", er, sr)} :
        /\ flow = "ui"
        /\ pc = "generate"
        /\ IF ~local.generation_done
           THEN /\ epics' = g.epics
                /\ user_stories' = g.user_stories
                /\ local' = [local EXCEPT !.generation_done = TRUE, !.gen_passes = @ + 1]
                /\ last' = g.last
           ELSE /\ last' = Call("generate")
                /\ UNCHANGED <<epics, user_stories, local>>
        /\ pc' = "feedback"
        /\ UNCHANGED <<UIFrame, generation_type, workflow_type, hlr, Jira, Analysis, questions,
                       responses, feedback_history, feedback_count>>

\* step "feedback": one of the two buttons
ui_feedback(satisfied) ==
    /\ flow = "ui"
    /\ pc = "feedback"
    /\ pc' = IF satisfied THEN "export" ELSE "feedback_input"
    /\ last' = Call("feedback")
    /\ UNCHANGED <<UIFrame, generation_type, workflow_type, hlr, Jira, Analysis, questions,
                   responses, Content, local>>

\* step "feedback_input" leaving the generation_done flag set
ui_feedback_input_keeping_flag(user_input) ==
    /\ flow = "ui"
    /\ pc = "feedback_input"
    /\ user_input # "" /\ feedback_count < MaxFeedback
    /\ feedback_history' = Append(feedback_history, user_input)
    /\ feedback_count' = feedback_count + 1
    /\ pc' = "generate"
    /\ last' = [Call("feedback_input") EXCEPT !.applied = TRUE]
    /\ UNCHANGED <<UIFrame, generation_type, workflow_type, hlr, Jira, Analysis, questions,
                   responses, epics, user_stories, local>>

\* step "feedback_input": a chat input, possibly empty
ui_feedback_input(user_input) ==
    /\ flow = "ui"
    /\ pc = "feedback_input"
    /\ IF user_input # "" /\ feedback_count < MaxFeedback
       THEN /\ feedback_history' = Append(feedback_history, user_input)
            /\ feedback_count' = feedback_count + 1
            /\ local' = [local EXCEPT !.generation_done = FALSE]
            /\ pc' = "generate"
            /\ last' = [Call("feedback_input") EXCEPT !.applied = TRUE]
       ELSE \* no branch of the step handles the input
            /\ pc' = pc
            /\ last' = Call("feedback_input")
            /\ UNCHANGED <<feedback_history, feedback_count, local>>
    /\ UNCHANGED <<UIFrame, generation_type, workflow_type, hlr, Jira, Analysis, questions,
                   responses, epics, user_stories>>

\* step "export": the button "Start New Workflow"
ui_start_new_workflow ==
    /\ flow = "ui"
    /\ pc = "export"
    /\ pc' = "hlr"
    /\ phase' = "input"
    /\ generation_type' = "both"
    /\ workflow_type' = ""
    /\ hlr' = ""
    /\ selected_project' = None
    /\ selected_issues' = <<>>
    /\ issues_detail' = ""
    /\ slicing_type' = ""
    /\ persona' = ""
    /\ questions' = <<>>
    /\ responses' = EmptyMap
    /\ validation_results' = EmptyMap
    /\ requirement_analysis' = NoAnalysis
    /\ epics' = <<>>
    /\ user_stories' = <<>>
    /\ feedback_history' = <<>>
    /\ feedback_count' = 0
    /\ overall_confidence' = Zero
    /\ errors' = {}
    /\ local' = NoLocals
    /\ last' = Call("start_new_workflow")
    /\ UNCHANGED flow

UINext ==
    \/ \E keyword \in BOOLEAN : ui_hlr(keyword)
    \/ \E found \in IF local.projects = "unloaded" THEN BOOLEAN ELSE {FALSE} :
          ui_jira_projects(found)
    \/ \E choice \in {"existing", "new"} : ui_workflow_choice(choice)
    \/ \E issues \in IF local.issues_loaded THEN {<<>>} ELSE {<<>>, <<"PRJ-1">>} :
          ui_jira_issues(issues)
    \/ ui_hlr_input("req")
    \/ ui_additional_inputs
    \/ \E ar \in MainAnalysisReplies, qr \in QuestionReplies : ui_analyze(ar, qr)
    \/ \E choice \in IF persona = "Technical Lead" THEN {"ok", "Custom"} ELSE {"ok"} :
          ui_persona_confirm(choice)
    \/ \E user_input \in {"skip"} \cup Answers : ui_qa(user_input)
    \/ \E gt \in GenerationTypes : ui_generation_type(gt)
    \/ \E er \in EpicRepliesIf(~local.generation_done),
          sr \in StoryRepliesIf(~local.generation_done) : ui_generate(er, sr)
    \/ \E satisfied \in BOOLEAN : ui_feedback(satisfied)
    \/ \E user_input \in {"", Feedbacks[feedback_count + 1]} : ui_feedback_input(user_input)
    \/ ui_start_new_workflow

(***************************************************************************)
(* Start-up: the construction of an engine.  JIRAAgentSystem() is called   *)
(* by main() of agents.py, RequirementAnalysisAgent() when main.py is      *)
(* loaded.  A constructed engine serves the sessions of the flows above.   *)
(***************************************************************************)
Engines == {"JIRAAgentSystem", "RequirementAnalysisAgent"}

\* the process before an engine is constructed: no session, no phase
not_constructed(key) ==
    /\ pc = "construct"
    /\ phase = None
    /\ generation_type = None
    /\ workflow_type = ""
    /\ hlr = ""
    /\ selected_project = None
    /\ selected_issues = <<>>
    /\ issues_detail = ""
    /\ slicing_type = None
    /\ persona = ""
    /\ questions = <<>>
    /\ responses = EmptyMap
    /\ validation_results = EmptyMap
    /\ requirement_analysis = NoAnalysis
    /\ epics = <<>>
    /\ user_stories = <<>>
    /\ feedback_history = <<>>
    /\ feedback_count = 0
    /\ overall_confidence = Zero
    /\ errors = {}
    /\ local = [NoLocals EXCEPT !.api_key = key]
    /\ last = NoCall

\* __init__ going on without a credential
engine_init_lenient(engine) ==
    /\ flow = "startup"
    /\ pc = "construct"
    /\ pc' = "constructed"
    /\ last' = Call(engine)
    /\ UNCHANGED <<flow, phase, generation_type, workflow_type, hlr, Jira, Analysis, QAState,
                   Content, errors, local>>

\* JIRAAgentSystem.__init__ / RequirementAnalysisAgent.__init__:
\* if not api_key: raise ValueError
engine_init(engine) ==
    /\ flow = "startup"
    /\ pc = "construct"
    /\ IF ~local.api_key
       THEN /\ pc' = "failed"
            /\ last' = [Call(engine) EXCEPT !.raised = TRUE, !.failed = {"configuration"}]
       ELSE /\ pc' = "constructed"
            /\ last' = Call(engine)
    /\ UNCHANGED <<flow, phase, generation_type, workflow_type, hlr, Jira, Analysis, QAState,
                   Content, errors, local>>

StartupNext == \E engine \in Engines : engine_init(engine)

(***************************************************************************)
(* Properties.                                                             *)
(***************************************************************************)
\* the components whose failure is a failed or unparseable model reply
Components == {"analysis", "questions", "validation", "epics", "stories"}

\* the position of a phase in AnalysisPhase (main.py)
PhaseRank(p) ==
    CASE p = "input" -> 0
      [] p = "analyzing" -> 1
      [] p = "questioning" -> 2
      [] p = "validating" -> 3
      [] p = "generating" -> 4
      [] p = "complete" -> 5
      [] OTHER -> -1

\* the position of a node of the main.py graph along its edges
NodeRank(n) ==
    CASE n = "start" -> 0
      [] n \in {"jira_integration", "new_requirement"} -> 1
      [] n \in {"requirement_analysis", "qa_loop"} -> 2
      [] n = "setup_generation" -> 3
      [] n = "generation" -> 4
      [] n = "feedback" -> 5
      [] n = "final_validation" -> 6
      [] n = "end" -> 7
      [] OTHER -> 8

\* the last operation ran a generation or regeneration pass and returned
PassReturned == (last.epics_called \/ last.stories_called) /\ ~last.raised

\* C1: feedback_count starts at 0 and never exceeds 3 in any reachable state,
\* whichever flow applies the feedback (process_feedback of agents.py,
\* feedback_node of main.py, the feedback_input step of main_interface.py)
C1_FeedbackCap ==
    /\ feedback_count \in 0..3
    /\ (last.op = "none" => feedback_count = 0)

\* C1: a feedback submitted in the Streamlit flow when three were already applied
C1_Witness ==
    /\ flow = "ui"
    /\ feedback_count = 3
    /\ last.op = "feedback_input"
    /\ ~last.applied

\* C2: at feedback_count = 3, process_feedback returns applied = False without
\* invoking feedback validation or apply_feedback and leaves epics, user_stories,
\* feedback_history and feedback_count unchanged; a valid feedback at
\* feedback_count = 2 ends at 3
C2_RejectedAtCap ==
    [][(flow = "agents" /\ last'.op = "process_feedback") =>
          /\ (feedback_count = 3 =>
                 /\ ~last'.applied /\ ~last'.validated /\ ~last'.regenerated
                 /\ UNCHANGED <<epics, user_stories, feedback_history, feedback_count>>)
          /\ (feedback_count = 2 /\ last'.applied => feedback_count' = 3)]_vars

\* C2: a call of process_feedback that was rejected at the cap
C2_Witness ==
    /\ flow = "agents"
    /\ feedback_count = 3
    /\ Len(feedback_history) = 3
    /\ last.op = "process_feedback"
    /\ ~last.applied /\ ~last.validated

\* C3: in process_feedback below the cap, feedback judged valid increments
\* feedback_count by exactly one and appends that feedback string to
\* feedback_history; feedback judged invalid changes none of feedback_count,
\* feedback_history, epics, user_stories
C3_FeedbackAccounting ==
    [][(flow = "agents" /\ last'.op = "process_feedback" /\ feedback_count < 3) =>
          /\ (last'.regenerated =>
                 /\ feedback_count' = feedback_count + 1
                 /\ feedback_history' = Append(feedback_history, Feedbacks[feedback_count + 1]))
          /\ (last'.validated /\ ~last'.regenerated =>
                 UNCHANGED <<epics, user_stories, feedback_history, feedback_count>>)]_vars

\* C4: after a generation or regeneration pass, each list the session generates
\* is empty or exactly the output of the latest generator call
C4_WholesaleReplacement ==
    PassReturned =>
        /\ (WantsEpics(generation_type) => epics = <<>> \/ epics = last.epics_out)
        /\ (WantsStories(generation_type) =>
               user_stories = <<>> \/ user_stories = last.stories_out)

\* C5: once the phase is COMPLETE no engine operation changes epics,
\* user_stories or questions, and the phase stays COMPLETE
C5_CompleteIsTerminal ==
    [][(flow = "agents" /\ phase = "complete") =>
          /\ phase' = "complete"
          /\ UNCHANGED <<epics, user_stories, questions>>]_vars


\* C6: in a run of main.py the phase only moves forward along INPUT, ANALYZING,
\* QUESTIONING, VALIDATING, GENERATING, COMPLETE; the nodes run in the order of
\* the graph, the only repeated work being the next question of the Q&A loop
\* and the feedback loop re-running generation; COMPLETE is reached only after
\* a generation pass
C6_ForwardOnly ==
    [][flow = "main" =>
          /\ PhaseRank(phase) >= 0
          /\ PhaseRank(phase') >= PhaseRank(phase)
          /\ NodeRank(pc') >= NodeRank(pc)
          /\ (pc' = pc => \/ pc = "qa_loop" /\ local'.qidx = local.qidx + 1
                          \/ pc = "feedback" /\ feedback_count' = feedback_count + 1
                                             /\ local'.gen_passes = local.gen_passes + 1)
          /\ (local'.gen_passes # local.gen_passes => pc \in {"generation", "feedback"})
          /\ (phase' = "complete" => local'.gen_passes >= 1)]_vars

\* C6: a run that validated an answer, regenerated on feedback and completed
C6_Witness ==
    /\ flow = "main"
    /\ phase = "complete"
    /\ validation_results # EmptyMap
    /\ feedback_count >= 1
    /\ local.gen_passes = feedback_count + 1

\* C7: no failed model call aborts a run of main.py before COMPLETE, on either
\* route; a run regenerates at most three times
C7_RunsComplete ==
    flow = "main" =>
        /\ ~last.raised
        /\ pc # "aborted"
        /\ local.gen_passes <= 1 + 3
        /\ (pc = "end" => phase = "complete")

\* C8: the Streamlit flow never rests in a feedback step in which every input
\* is ignored: with feedback_count = 3 it is not in the feedback_input step
C8_CapForcesExport ==
    flow = "ui" /\ feedback_count >= 3 => pc # "feedback_input"

\* C9: a failed model call or an unparseable reply during analysis, question
\* generation, answer validation, epic generation or story generation never
\* sets the phase to ERROR and never raises to the caller
C9_DegradeNotCrash ==
    last.failed \cap Components # {} => phase # "error" /\ ~last.raised

\* C10: when its model call raises, each component of main.py returns its
\* default instead of raising: the analysis functional / Business Analyst / 0.5,
\* the question list empty, the validation valid with score 0.7, the epic and
\* story lists empty
C10_Defaults ==
    flow \in {"main", "ui"} =>
        /\ (last.failed \cap Components # {} => ~last.raised)
        /\ ("analysis" \in last.failed =>
               requirement_analysis = [slicing_type |-> "functional",
                                       recommended_persona |-> "Business Analyst",
                                       confidence |-> 5])
        /\ ("questions" \in last.failed => questions = <<>>)
        /\ ("validation" \in last.failed =>
               validation_results[local.qidx - 1] = [is_valid |-> TRUE, overall_score |-> 7])
        /\ ("epics" \in last.failed => last.epics_out = <<>> /\ epics = <<>>)
        /\ ("stories" \in last.failed => last.stories_out = <<>> /\ user_stories = <<>>)

\* C10: a run of main.py in which the analysis, a validation and both
\* generators failed
C10_Witness ==
    /\ flow = "main"
    /\ requirement_analysis.recommended_persona = "Business Analyst"
    /\ requirement_analysis.confidence = 5
    /\ \E q \in DOMAIN validation_results : validation_results[q].overall_score = 7
    /\ last.failed = {"epics", "stories"}
    /\ epics = <<>> /\ user_stories = <<>>

\* the validation results of the questions that are answered and not skipped
CountedResults ==
    [q \in {k \in DOMAIN validation_results : questions[k].answered /\ ~questions[k].skipped}
        |-> validation_results[q]]

\* equality of two rationals [num, den]
SameRatio(a, b) == a.num * b.den = b.num * a.den

\* C11: at the end of every operation overall_confidence lies in [0,1], and it
\* is 0.0 exactly when no stored validation result has is_valid = true.  (Inside
\* the Q&A loop of main.py the confidence of the batch is not computed yet.)
C11_ConfidenceBound ==
    pc # "qa_loop" =>
        /\ overall_confidence.den > 0
        /\ 0 <= overall_confidence.num
        /\ overall_confidence.num <= 10 * overall_confidence.den
        /\ (overall_confidence.num = 0
               <=> \A q \in DOMAIN validation_results : ~validation_results[q].is_valid)

\* C12: after every call of process_qa_session, in any sequence of calls on one
\* session, overall_confidence is the mean validation score over exactly the
\* questions that are answered, not skipped and currently judged valid, and
\* 0.0 if there is none.
C12_ConfidenceIsMeanOfCounted ==
    (flow \in EngineFlows /\ last.op = "process_qa_session") =>
        SameRatio(overall_confidence, Confidence(CountedResults))

\* C13: for every question, skipped = true implies answered = true and
\* answer = "[SKIPPED]".
C13_SkippedHasSentinel ==
    \A i \in QuestionIds :
        questions[i].skipped => questions[i].answered /\ questions[i].answer = SKIPPED

C15_AllAnsweredBeforeGenerating ==
    (flow = "main" /\ phase = "generating") =>
        \A i \in QuestionIds : questions[i].answered

\* no stored validation result is valid
NoneValid == \A q \in DOMAIN validation_results : ~validation_results[q].is_valid

\* C16: in the main.py workflow validity is not a gate.  Whatever the verdicts,
\* once the Q&A loop has gone through the questions the node returns, the
\* workflow goes on to setup_generation and then to generation_node, which
\* enters the generating phase; none of these steps can be refused or raise.
\* The verdicts decide overall_confidence, which is 0.0 when none is valid.
C16_ValidityIsNoGate ==
    /\ [](flow = "main" /\ pc \in {"qa_loop", "setup_generation", "generation"}
             => ENABLED MainNext)
    /\ [][flow = "main" =>
            /\ (pc = "qa_loop" => pc' \in {"qa_loop", "setup_generation"} /\ ~last'.raised)
            /\ (pc = "qa_loop" /\ local.qidx > Len(questions) =>
                   /\ pc' = "setup_generation"
                   /\ SameRatio(overall_confidence', Confidence(validation_results))
                   /\ (NoneValid => overall_confidence' = Zero))
            /\ (pc = "setup_generation" => pc' = "generation" /\ ~last'.raised)
            /\ (pc = "generation" => phase' = "generating" /\ ~last'.raised)]_vars

\* the generating phase entered with every recorded verdict invalid
C16_Witness ==
    /\ flow = "main"
    /\ phase = "generating"
    /\ validation_results # EmptyMap
    /\ NoneValid
    /\ overall_confidence = Zero
    /\ \A i \in QuestionIds : questions[i].answered

\* C17: in the Q&A loop of main.py and in the Streamlit Q&A step, when the next
\* question is presented every question answered so far (and not skipped) has
\* had the validator invoked on its answer and the verdict recorded.
C17_ValidatedBeforeNext ==
    flow \in {"main", "ui"} =>
        /\ \A q \in DOMAIN local.qa_responses : q \in DOMAIN validation_results
        /\ \A q \in DOMAIN responses :
              responses[q] # SKIPPED => q \in DOMAIN validation_results

\* C18: the Q&A context handed to the epic and story generators never contains
\* the sentinel answer "[SKIPPED]": a skipped question contributes nothing.
C18_SkippedNotInContext ==
    (last.epics_called \/ last.stories_called) => SKIPPED \notin last.qa_context

\* C19: in the feedback loop of main.py and in the Streamlit feedback_input
\* step, feedback is appended to feedback_history, counted and used for a
\* regeneration only after feedback validation was invoked on it and passed;
\* gibberish or generic feedback is never counted.
C19_FeedbackValidatedFirst ==
    [][(flow \in {"main", "ui"}
            /\ (feedback_count' > feedback_count
                   \/ Len(feedback_history') > Len(feedback_history)))
          => last'.validated]_vars

C21_NoQuestionsGoesToGeneration ==
    /\ [][(flow = "main" /\ last'.op = "requirement_analysis" /\ "questions" \in last'.failed)
             => questions' = <<>> /\ ~last'.raised /\ pc' = "qa_loop"]_vars
    /\ [][(flow = "main" /\ questions = <<>>) =>
             /\ (pc = "qa_loop" =>
                    /\ last'.op = "requirement_analysis_return"
                    /\ pc' = "setup_generation")
             /\ (pc = "setup_generation" => pc' = "generation")
             /\ (pc = "generation" =>
                    /\ phase' = "generating"
                    /\ last'.epics_called \/ last'.stories_called
                    /\ last'.qa_context = {})]_vars
    /\ []((flow = "main" /\ questions = <<>>) =>
             /\ responses = EmptyMap
             /\ validation_results = EmptyMap
             /\ overall_confidence = Zero
             /\ ~last.validated
             /\ (pc \in {"qa_loop", "setup_generation", "generation"} => ENABLED MainNext))

\* question generation has just failed in a run with a requirement text
C21_Witness ==
    /\ flow = "main"
    /\ hlr # ""
    /\ last.op = "requirement_analysis"
    /\ "questions" \in last.failed
    /\ questions = <<>>
    /\ pc = "qa_loop"

\* C22: a main.py session whose requirement text is empty stays in the input
\* phase, and no analysis, question-generation or content-generation call is
\* made for it.
C22_EmptyRequirementStaysInInput ==
    (flow = "main" /\ hlr = "") =>
        /\ phase = "input"
        /\ requirement_analysis = NoAnalysis
        /\ questions = <<>>
        /\ ~(last.epics_called \/ last.stories_called)

\* C23: routing in main.py.  The JIRA-integration node runs if and only if
\* workflow_type is "existing", and before the analysis: an "existing" session
\* goes from start to jira_integration and a "new" one to new_requirement, and
\* the analysis node is entered from one of these two only.  In a session that
\* is not "existing" selected_project, selected_issues and issues_detail stay
\* empty and no JIRA guidance is built, so the grounding context is empty.
C23_JiraRouting ==
    /\ [][flow = "main" =>
            /\ (last'.op = "jira_integration" =>
                   /\ workflow_type = "existing"
                   /\ last.op = "start"
                   /\ requirement_analysis = NoAnalysis /\ questions = <<>>)
            /\ (last'.op = "new_requirement" => workflow_type = "new" /\ last.op = "start")
            /\ (last'.op = "start" =>
                   pc' = (IF workflow_type' = "existing" THEN "jira_integration"
                          ELSE "new_requirement"))
            /\ (last'.op = "requirement_analysis" =>
                   last.op = (IF workflow_type = "existing" THEN "jira_integration"
                              ELSE "new_requirement"))]_vars
    /\ []((flow = "main" /\ workflow_type # "existing") =>
             /\ selected_project = None
             /\ selected_issues = <<>>
             /\ issues_detail = ""
             /\ ~local.jira_guidance)

\* a "new" session after a generation pass, and without any JIRA context
C23_Witness ==
    /\ flow = "main"
    /\ workflow_type = "new"
    /\ phase = "generating"
    /\ last.op = "generation"
    /\ requirement_analysis # NoAnalysis
    /\ selected_issues = <<>> /\ issues_detail = ""

C25_FeedbackFrame ==
    [][(flow \in {"agents", "main"} /\ last'.op \in {"process_feedback", "feedback"}) =>
          UNCHANGED <<hlr, slicing_type, persona, questions, responses, validation_results,
                      overall_confidence>>]_vars

\* a feedback applied to a session that has questions and recorded verdicts
C25_Witness ==
    /\ flow = "agents"
    /\ last.op = "process_feedback"
    /\ last.applied
    /\ questions # <<>>
    /\ validation_results # EmptyMap
    /\ overall_confidence # Zero

\* C26: after the analysis step the session's slicing_type is one of
\* functional, technical and user_journey, whatever the model returned (any
\* string, a missing field, a failure), in main.py and in agents.py.
C26_SlicingTypeResolved ==
    \/ (flow \in EngineFlows /\ last.op = "analyze_requirement")
    \/ (flow = "main" /\ requirement_analysis # NoAnalysis)
    => slicing_type \in SlicingTypes

\* C27: feedback_history changes only by an append at its end, and in every
\* reachable state its length equals feedback_count (process_feedback /
\* apply_feedback of agents.py, feedback_node of main.py, the Streamlit
\* feedback_input step).  "Start New Workflow" begins another session.
C27_HistoryAppendOnly ==
    /\ [](Len(feedback_history) = feedback_count)
    /\ [][last'.op # "start_new_workflow" =>
            \/ feedback_history' = feedback_history
            \/ /\ Len(feedback_history') = Len(feedback_history) + 1
               /\ SubSeq(feedback_history', 1, Len(feedback_history)) = feedback_history]_vars

\* the Streamlit flow after its second feedback was appended
C27_Witness ==
    /\ flow = "ui"
    /\ last.op = "feedback_input"
    /\ last.applied
    /\ feedback_count = 2
    /\ feedback_history = <<Feedbacks[1], Feedbacks[2]>>

(***************************************************************************)
(* The exported output: the counts the export functions compute from the   *)
(* session state.                                                          *)
(***************************************************************************)
\* the questions an export counts as answered, and as skipped
CountedAnswered == {i \in QuestionIds : questions[i].answered /\ ~questions[i].skipped}
CountedSkipped == {i \in QuestionIds : questions[i].skipped}

\* an export counting every question with answered = true as answered
export_counting_all_answered ==
    [feedback_iterations |-> feedback_count,
     total_questions |-> Len(questions),
     answered_questions |-> Cardinality({i \in QuestionIds : questions[i].answered}),
     skipped_questions |-> Cardinality(CountedSkipped),
     total_epics |-> Len(epics),
     total_user_stories |-> Len(user_stories)]

\* JIRAAgentSystem.export_final_output (agents.py)
export_final_output ==
    [feedback_iterations |-> feedback_count,
     total_questions |-> Len(questions),
     answered_questions |-> Cardinality(CountedAnswered),
     skipped_questions |-> Cardinality(CountedSkipped),
     total_epics |-> Len(epics),
     total_user_stories |-> Len(user_stories)]

\* create_clean_output (main.py); the Q&A counts are written only when the
\* session has questions, and are then absent (here 0)
create_clean_output ==
    [feedback_iterations |-> feedback_count,
     total_questions |-> Len(questions),
     answered_questions |-> IF questions # <<>> THEN Cardinality(CountedAnswered) ELSE 0,
     skipped_questions |-> IF questions # <<>> THEN Cardinality(CountedSkipped) ELSE 0,
     total_epics |-> Len(epics),
     total_user_stories |-> Len(user_stories)]

\* C28: the exported output of any reachable session state is consistent:
\* total_epics and total_user_stories are the lengths of epics and
\* user_stories, the questions counted as answered and as skipped are disjoint
\* with answered_questions + skipped_questions <= total_questions, and
\* feedback_iterations is the number of entries of feedback_history.
C28_ExportConsistent ==
    \A e \in {IF flow \in EngineFlows THEN export_final_output ELSE create_clean_output} :
        /\ e.total_epics = Len(epics)
        /\ e.total_user_stories = Len(user_stories)
        /\ CountedAnswered \cap CountedSkipped = {}
        /\ e.answered_questions + e.skipped_questions <= e.total_questions
        /\ e.feedback_iterations = Len(feedback_history)

\* a session with a skipped question, generated epics and an applied feedback
C28_Witness ==
    /\ flow = "agents"
    /\ pc = "content"
    /\ \E i \in QuestionIds : questions[i].skipped /\ questions[i].answered
    /\ epics # <<>>
    /\ feedback_count >= 1
    /\ export_final_output.skipped_questions = 1
    /\ export_final_output.feedback_iterations = Len(feedback_history)

\* C29: when OPENAI_API_KEY is missing, constructing the engine
\* (JIRAAgentSystem or RequirementAnalysisAgent) fails with an error; no
\* session exists and no phase is entered, and the construction is not tried
\* again: the process takes no further step.
C29_MissingCredentialIsFatal ==
    /\ [][(flow = "startup" /\ ~local.api_key) =>
             /\ pc = "construct"
             /\ pc' = "failed"
             /\ last'.raised
             /\ last'.op \in Engines]_vars
    /\ []((flow = "startup" /\ ~local.api_key) =>
             /\ pc \in {"construct", "failed"}
             /\ phase = None
             /\ questions = <<>> /\ epics = <<>> /\ user_stories = <<>>)

\* the construction has failed for want of the credential
C29_Witness ==
    /\ flow = "startup"
    /\ ~local.api_key
    /\ pc = "failed"
    /\ last.raised
    /\ last.failed = {"configuration"}
    /\ phase = None

\* C30: apply_feedback is all-or-nothing.  A call that returns has appended the
\* feedback and incremented feedback_count; a call that fails (the model call,
\* the JSON parse, the rebuilding of an epic or a story) leaves epics,
\* user_stories, feedback_history and feedback_count as they were.
C30_ApplyFeedbackAtomic ==
    [][(flow = "agents" /\ last'.op = "process_feedback" /\ last'.regenerated) =>
          \/ /\ last'.applied
             /\ feedback_count' = feedback_count + 1
             /\ Len(feedback_history') = Len(feedback_history) + 1
          \/ /\ ~last'.applied
             /\ UNCHANGED <<epics, user_stories, feedback_history, feedback_count>>]_vars

(***************************************************************************)
(* C31: in agents.py main(), whatever the user types and whatever the      *)
(* validation says, feedback is requested and handed to process_feedback   *)
(* at most 3 times in a session before the session goes to export.         *)
(***************************************************************************)
C31_FeedbackRoundsBounded ==
    flow = "cli" => local.feedback_rounds <= MaxFeedback

(***************************************************************************)
(* C32: once the Q&A loop of main.py has stored the responses, every       *)
(* answered, non-skipped question has a stored validation result, and that *)
(* result is the verdict computed on the answer text that is stored (in    *)
(* question.answer and in responses), also when the retry was taken.       *)
(***************************************************************************)
C32_VerdictIsOnStoredAnswer ==
    flow = "main" =>
        \A q \in DOMAIN responses :
            /\ q \in DOMAIN validation_results
            /\ q \in DOMAIN local.validated_on
            /\ questions[q].answer = responses[q]
            /\ local.validated_on[q] = responses[q]

(***************************************************************************)
(* C33: the generation type partitions the writes.  In every reachable     *)
(* state of an agents.py or main.py session, through the initial           *)
(* generation and every feedback iteration: with EPICS_ONLY user_stories   *)
(* is empty, with STORIES_ONLY epics is empty.                             *)
(***************************************************************************)
C33_TypePartitionsWrites ==
    flow \in {"agents", "api", "main"} =>
        /\ (generation_type = "epics_only" => user_stories = <<>>)
        /\ (generation_type = "stories_only" => epics = <<>>)

\* an EPICS_ONLY session whose epics a feedback has just regenerated
C33_Witness ==
    /\ flow \in {"agents", "main"}
    /\ generation_type = "epics_only"
    /\ feedback_count >= 1
    /\ last.regenerated
    /\ epics # <<>>
    /\ user_stories = <<>>

(***************************************************************************)
(* C34: in the main.py workflow and in the Streamlit flow, once the first  *)
(* generation has run the number of generation passes is 1 +               *)
(* feedback_count: generation runs exactly once initially and once per     *)
(* counted feedback (a re-render of the Streamlit generate step with       *)
(* generation_done set runs nothing).  Between a counted feedback and the  *)
(* pass it has requested (Streamlit step "generate" with the flag          *)
(* cleared) the pass is still due.                                         *)
(***************************************************************************)
C34_PassesMatchFeedback ==
    (flow \in {"main", "ui"} /\ local.gen_passes >= 1) =>
        IF flow = "ui" /\ pc = "generate" /\ ~local.generation_done
        THEN local.gen_passes = feedback_count
        ELSE local.gen_passes = 1 + feedback_count

\* a Streamlit session that has regenerated on two counted feedbacks
C34_Witness ==
    /\ flow = "ui"
    /\ pc = "feedback"
    /\ feedback_count = 2
    /\ local.gen_passes = 3
    /\ local.generation_done

C36_EveryAttemptCounts ==
    flow = "chat" =>
        /\ local.feedback_count = local.feedback_rounds
        /\ local.feedback_rounds <= MaxFeedback
        /\ (local.feedback_count >= MaxFeedback => pc \in {"export", "done"})
        /\ feedback_count <= local.feedback_count
        /\ local.feedback_count <= MaxFeedback

(***************************************************************************)
(* main.py: JiraIntegrationAgent.query, taken by itself.  pc is the place  *)
(* in the loop: "loop" at the head of `for iteration in                    *)
(* range(max_iterations)`, "tools" inside `for tool_call in                *)
(* message.tool_calls`, "returned" / "raised" when the call has ended.     *)
(* local holds the locals of the call.                                     *)
(***************************************************************************)
\* the largest max_iterations a caller passes, and the most tool calls one
\* model response requests
MaxIterations == 3
MaxToolCalls == 2

\* a model response: the call raised, or the message came with that many tool
\* calls (0: a final answer)
ModelResponses ==
    {[kind |-> "raise", tool_calls |-> 0]}
    \cup {[kind |-> "message", tool_calls |-> n] : n \in 0..MaxToolCalls}

\* query has not returned
NoResult == [success |-> FALSE, iterations |-> -1, tool_calls_made |-> <<>>]

\* the locals of query at entry; model_calls, requested and executed count,
\* for the record, the chat.completions.create calls made, the tool calls the
\* responses asked for and the _execute_tool calls made; tool_error is whether
\* the latest tool message carries an {"error": ...} result
QueryLocals(max_iterations) ==
    [max_iterations |-> max_iterations, iteration_count |-> 0, tool_call_history |-> <<>>,
     pending |-> 0, model_calls |-> 0, requested |-> 0, executed |-> 0,
     tool_error |-> FALSE, result |-> NoResult]

\* everything but the place in query and its locals
QueryFrame == <<flow, phase, generation_type, workflow_type, hlr, selected_project,
                selected_issues, issues_detail, slicing_type, persona, questions, responses,
                validation_results, epics, user_stories, feedback_history, feedback_count,
                overall_confidence, errors, requirement_analysis, last>>

\* query(user_request, max_iterations) is called
query_called(max_iterations) ==
    /\ pc = "loop"
    /\ phase = "input"
    /\ generation_type = "both"
    /\ workflow_type = ""
    /\ hlr = ""
    /\ selected_project = None
    /\ selected_issues = <<>>
    /\ issues_detail = ""
    /\ slicing_type = ""
    /\ persona = ""
    /\ questions = <<>>
    /\ responses = EmptyMap
    /\ validation_results = EmptyMap
    /\ requirement_analysis = NoAnalysis
    /\ epics = <<>>
    /\ user_stories = <<>>
    /\ feedback_history = <<>>
    /\ feedback_count = 0
    /\ overall_confidence = Zero
    /\ errors = {}
    /\ local = QueryLocals(max_iterations)
    /\ last = NoCall

\* the loop test with one iteration too many
IterationsLeftInclusive(iteration_count, max_iterations) == iteration_count <= max_iterations

\* for iteration in range(max_iterations): another iteration is due
IterationsLeft(iteration_count, max_iterations) == iteration_count < max_iterations

\* one iteration up to the tool calls: the model call and the test of
\* message.tool_calls
query_iteration(response) ==
    /\ flow = "query"
    /\ pc = "loop"
    /\ IterationsLeft(local.iteration_count, local.max_iterations)
    /\ IF response.kind = "raise"
       THEN \* chat.completions.create raises: no handler in query
            /\ pc' = "raised"
            /\ local' = [local EXCEPT !.iteration_count = @ + 1, !.model_calls = @ + 1]
       ELSE IF response.tool_calls = 0
       THEN /\ pc' = "returned"
            /\ local' = [local EXCEPT
                            !.iteration_count = @ + 1, !.model_calls = @ + 1,
                            !.result = [success |-> TRUE,
                                        iterations |-> local.iteration_count + 1,
                                        tool_calls_made |-> local.tool_call_history]]
       ELSE /\ pc' = "tools"
            /\ local' = [local EXCEPT
                            !.iteration_count = @ + 1, !.model_calls = @ + 1,
                            !.pending = response.tool_calls,
                            !.requested = @ + response.tool_calls]
    /\ UNCHANGED QueryFrame

\* one tool call of the response: json.loads of its arguments (raises when
\* they are malformed), the entry in tool_call_history, _execute_tool (which
\* turns every failure into an {"error": ...} result) and the tool message
query_tool_call(well_formed, tool_error) ==
    /\ flow = "query"
    /\ pc = "tools"
    /\ local.pending > 0
    /\ IF ~well_formed
       THEN /\ pc' = "raised"
            /\ local' = local
       ELSE /\ local' = [local EXCEPT
                            !.tool_call_history = Append(@, local.iteration_count),
                            !.executed = @ + 1,
                            !.pending = @ - 1,
                            !.tool_error = tool_error]
            /\ pc' = IF local.pending = 1 THEN "loop" ELSE "tools"
    /\ UNCHANGED QueryFrame

\* the loop is exhausted: "Max iterations reached"
query_max_iterations ==
    /\ flow = "query"
    /\ pc = "loop"
    /\ ~IterationsLeft(local.iteration_count, local.max_iterations)
    /\ pc' = "returned"
    /\ local' = [local EXCEPT !.result = [success |-> FALSE,
                                           iterations |-> local.iteration_count,
                                           tool_calls_made |-> local.tool_call_history]]
    /\ UNCHANGED QueryFrame

QueryNext ==
    \/ \E response \in ModelResponses : query_iteration(response)
    \/ \E well_formed, tool_error \in BOOLEAN : query_tool_call(well_formed, tool_error)
    \/ query_max_iterations

(***************************************************************************)
(* C37: JiraIntegrationAgent.query ends after at most max_iterations model *)
(* calls.  It returns success = True at the first model response without   *)
(* tool calls.  Otherwise, once the budget is used, it returns success =   *)
(* False with iterations = max_iterations.  Every tool call a response     *)
(* requested has been executed before the next model call is made and      *)
(* before query returns.  (A model call or a decoding of tool arguments    *)
(* that raises ends query there, within the same budget.)                  *)
(***************************************************************************)
C37_QueryBounded ==
    flow = "query" =>
        /\ local.model_calls <= local.max_iterations
        /\ local.model_calls = local.iteration_count
        /\ (pc \in {"loop", "returned"} =>
               /\ local.pending = 0
               /\ local.executed = local.requested
               /\ Len(local.tool_call_history) = local.requested)
        /\ (pc = "returned" =>
               /\ local.result # NoResult
               /\ local.result.iterations = local.model_calls
               /\ local.result.tool_calls_made = local.tool_call_history
               /\ (local.result.success =>
                      \* the response of the last call had no tool calls, and
                      \* every earlier one had some
                      \A i \in 1..Len(local.tool_call_history) :
                          local.tool_call_history[i] < local.result.iterations)
               /\ (~local.result.success =>
                      /\ local.result.iterations = local.max_iterations
                      /\ \A k \in 1..local.max_iterations :
                            \E i \in 1..Len(local.tool_call_history) :
                                local.tool_call_history[i] = k))
        /\ (pc # "returned" => local.result = NoResult)

\* query returned success = False after max_iterations rounds of tool calls
C37_Witness ==
    /\ flow = "query"
    /\ pc = "returned"
    /\ ~local.result.success
    /\ local.max_iterations = MaxIterations
    /\ local.model_calls = MaxIterations
    /\ local.executed = local.requested
    /\ local.requested > MaxIterations

(***************************************************************************)
(* history.py: HistoryManager over its sessions table.  local holds the    *)
(* rows of the table, the clock that datetime.now() reads, what the latest *)
(* get_session_state returned and, for the record, per session id the call *)
(* that saved it last and the time of its first save since it was deleted. *)
(***************************************************************************)
\* the number of save_checkpoint calls followed
MaxSaves == 3

\* Optional values: None, or a value
Nothing == <<>>
Some(v) == <<v>>

\* the session ids of the states saved; a state dict may lack the key
SessionIds == {"s1"}
StoredIds == SessionIds \cup {""}

\* a member of the Enum AnalysisPhase, and a plain string in its place (as in
\* a state that was loaded from a snapshot)
EnumPhase == [kind |-> "enum", text |-> "input"]
TextPhase == [kind |-> "str", text |-> "AnalysisPhase.INPUT"]

\* the state dicts handed to save_checkpoint: Missing stands for an absent key
CheckpointStates ==
    [session_id : SessionIds \cup {Missing},
     current_step : {"qa", "final_validation", Missing},
     phase : {EnumPhase, TextPhase}]

\* json.dumps(state, default=str) read back by json.loads: a value json cannot
\* encode is replaced by its str(), here the Enum member by 'AnalysisPhase.INPUT'
JsonSnapshot(state) ==
    [state EXCEPT !.phase = IF @.kind = "enum" THEN TextPhase ELSE @]

\* the column current_phase: phase.value if it has one, else str(phase)
PhaseColumn(p) == p.text

\* the row save_checkpoint writes at time now; created_at is the created_at of
\* the row the table holds for the id, if any (COALESCE), else now
CheckpointRow(rows, state, now) ==
    LET id == Get(state.session_id, "")
        found == {r \in rows : r.session_id = id}
    IN  [session_id |-> id,
         current_phase |-> PhaseColumn(state.phase),
         current_step |-> Get(state.current_step, ""),
         state_snapshot |-> JsonSnapshot(state),
         created_at |-> IF found # {} THEN (CHOOSE r \in found : TRUE).created_at ELSE now,
         updated_at |-> now,
         is_completed |-> IF state.current_step = "final_validation" THEN 1 ELSE 0]

\* INSERT without the conflict clause on a table without the primary key
InsertPlain(rows, row) == rows \cup {row}

\* INSERT OR REPLACE on session_id TEXT PRIMARY KEY: the row that holds the
\* key is deleted, the new row inserted
InsertOrReplace(rows, row) ==
    {r \in rows : r.session_id # row.session_id} \cup {row}

HistoryLocals ==
    [rows |-> {}, clock |-> 0, got |-> Nothing,
     saved |-> [id \in StoredIds |-> Nothing],
     first_saved |-> [id \in StoredIds |-> Nothing]]

\* HistoryManager(): _init_database created the empty table
history_init ==
    /\ pc = "ready"
    /\ phase = "input"
    /\ generation_type = "both"
    /\ workflow_type = ""
    /\ hlr = ""
    /\ selected_project = None
    /\ selected_issues = <<>>
    /\ issues_detail = ""
    /\ slicing_type = ""
    /\ persona = ""
    /\ questions = <<>>
    /\ responses = EmptyMap
    /\ validation_results = EmptyMap
    /\ requirement_analysis = NoAnalysis
    /\ epics = <<>>
    /\ user_stories = <<>>
    /\ feedback_history = <<>>
    /\ feedback_count = 0
    /\ overall_confidence = Zero
    /\ errors = {}
    /\ local = HistoryLocals
    /\ last = NoCall

\* everything but the table and the clock
HistoryFrame == <<flow, pc, phase, generation_type, workflow_type, hlr, selected_project,
                  selected_issues, issues_detail, slicing_type, persona, questions, responses,
                  validation_results, epics, user_stories, feedback_history, feedback_count,
                  overall_confidence, errors, requirement_analysis>>

\* HistoryManager.save_checkpoint(state)
save_checkpoint(state) ==
    LET id == Get(state.session_id, "")
        now == local.clock
    IN  /\ flow = "history"
        /\ local.clock < MaxSaves
        /\ local' = [local EXCEPT
                        !.rows = InsertOrReplace(@, CheckpointRow(local.rows, state, now)),
                        !.clock = @ + 1,
                        !.got = Nothing,
                        !.saved[id] = Some(state),
                        !.first_saved[id] = IF @ = Nothing THEN Some(now) ELSE @]
        /\ last' = Call("save_checkpoint")
        /\ UNCHANGED HistoryFrame

\* HistoryManager.get_session_state(session_id): the result
get_session_state(rows, session_id) ==
    LET found == {r \in rows : r.session_id = session_id}
    IN  IF found # {} THEN Some((CHOOSE r \in found : TRUE).state_snapshot) ELSE Nothing

\* a call of get_session_state(session_id)
history_get(session_id) ==
    /\ flow = "history"
    /\ local' = [local EXCEPT
                    !.got = Some([session_id |-> session_id,
                                  state |-> get_session_state(local.rows, session_id)])]
    /\ last' = Call("get_session_state")
    /\ UNCHANGED HistoryFrame

\* HistoryManager.delete_session(session_id)
delete_session(session_id) ==
    /\ flow = "history"
    /\ local' = [local EXCEPT
                    !.rows = {r \in @ : r.session_id # session_id},
                    !.got = Nothing,
                    !.saved[session_id] = Nothing,
                    !.first_saved[session_id] = Nothing]
    /\ last' = Call("delete_session")
    /\ UNCHANGED HistoryFrame

HistoryNext ==
    \/ \E state \in CheckpointStates : save_checkpoint(state)
    \/ \E session_id \in StoredIds : history_get(session_id)
    \/ \E session_id \in StoredIds : delete_session(session_id)

(***************************************************************************)
(* C38: after any sequence of save_checkpoint and delete_session calls the *)
(* table holds at most one row per session_id; get_session_state(id)       *)
(* returns the snapshot of the most recent save of that id, or None if the *)
(* id was never saved or was deleted since; a re-save keeps the created_at *)
(* of the first save; and the row is marked completed exactly when the     *)
(* latest checkpoint has current_step = 'final_validation'.                *)
(***************************************************************************)
C38_HistoryStore ==
    flow = "history" =>
        /\ \A id \in StoredIds :
              LET found == {r \in local.rows : r.session_id = id}
              IN  /\ Cardinality(found) <= 1
                  /\ (local.saved[id] = Nothing) = (found = {})
                  /\ get_session_state(local.rows, id) =
                        IF local.saved[id] = Nothing THEN Nothing
                        ELSE Some(JsonSnapshot(local.saved[id][1]))
                  /\ \A r \in found :
                        /\ Some(r.created_at) = local.first_saved[id]
                        /\ (r.is_completed = 1) =
                              (local.saved[id][1].current_step = "final_validation")
                        /\ r.is_completed \in {0, 1}
        /\ \A r \in local.rows : r.session_id \in StoredIds
        /\ (local.got # Nothing =>
               local.got[1].state = get_session_state(local.rows, local.got[1].session_id))

\* a session saved, saved again at final_validation and read back: one row,
\* completed, created at the time of the first save
C38_Witness ==
    /\ flow = "history"
    /\ local.got # Nothing
    /\ local.got[1].session_id = "s1"
    /\ local.got[1].state # Nothing
    /\ local.got[1].state[1].current_step = "final_validation"
    /\ \E r \in local.rows :
          r.session_id = "s1" /\ r.is_completed = 1 /\ r.created_at < r.updated_at

(***************************************************************************)
(* The specification.                                                      *)
(***************************************************************************)
Init ==
    \/ flow \in {"agents", "api"} /\ \E gt \in GenerationTypes : create_session(gt)
    \/ flow = "main" /\ initial_state
    \/ flow = "ui" /\ ui_session_state
    \/ flow = "startup" /\ \E key \in BOOLEAN : not_constructed(key)

Next == AgentsNext \/ MainNext \/ UINext \/ StartupNext

Spec == Init /\ [][Next]_vars

\* agents.py run as a program: main()
CliInit == flow = "cli" /\ \E gt \in GenerationTypes : create_session(gt)
CliSpec == CliInit /\ [][CliNext]_vars

\* pages/chatbot.py from the creation of the session
ChatInit == flow = "chat" /\ \E gt \in GenerationTypes : create_session(gt)
ChatSpec == ChatInit /\ [][ChatNext]_vars

\* JiraIntegrationAgent.query, one call
QueryInit == flow = "query" /\ \E max_iterations \in 0..MaxIterations : query_called(max_iterations)
QuerySpec == QueryInit /\ [][QueryNext]_vars

\* history.py: a HistoryManager and the calls made on it
HistoryInit == flow = "history" /\ history_init
HistorySpec == HistoryInit /\ [][HistoryNext]_vars

====
